---- MODULE Spec2Model ----
(***************************************************************************)
(* BlockOptimizer (src/blocksnet/method/block_optimizer.py): the land-use  *)
(* conversion optimizer.  calculate() estimates per-block demand and       *)
(* capacity, builds one integer linear program over all converting blocks, *)
(* solves it, decodes the solution and assembles the demolition table.     *)
(*                                                                         *)
(* Number conventions.  The code computes in floats; the model computes    *)
(* the same quantities exactly:                                            *)
(*   - FSI bounds are kept in hundredths (0.5 is 50, 0.05 is 5);           *)
(*   - a weight or a ceiling is a reduced fraction [num, den];             *)
(*   - a linear constraint is multiplied through by the positive number    *)
(*     that makes its coefficients integers (the code's                    *)
(*     sum(count * area / block_area) <= FSI_max is kept as                *)
(*     sum(count * 100 * area) <= FSI_max100 * block_area);                *)
(*   - pandas rows are indexed from 0, sequences here from 1.              *)
(***************************************************************************)
EXTENDS Integers, Sequences, FiniteSets, TLC

VARIABLES
    city_model,          \* the external city model: blocks and land-use service types
    accessibility,       \* the external accessibility provider: cost tables per focal block
    SCENARIO,            \* BlockOptimizer.SCENARIO
    BLOCKS_LANUSE_DICT,  \* BlockOptimizer.BLOCKS_LANUSE_DICT (insertion-ordered dict)
    MAX_FACILITIES,      \* BlockOptimizer.MAX_FACILITIES
    ORIG_SERVICE_TYPES,  \* BlockOptimizer.ORIG_SERVICE_TYPES
    NEW_SERVICE_TYPES,   \* BlockOptimizer.NEW_SERVICE_TYPES
    FREE_AREA,           \* BlockOptimizer.FREE_AREA
    BRICKS,              \* BlockOptimizer.BRICKS
    CONSTANTS_DICT,      \* BlockOptimizer.CONSTANTS (the name is reserved in TLA+)
    pc,                  \* position of the running invocation of calculate()
    frame,               \* its parameters and the iterator of its loop over the blocks
    prob,                \* its local: the LpProblem
    solution,            \* the solver's status and variable values after prob.solve
    decoded,             \* what get_optimal_update_df returned
    result,              \* what calculate() returned
    raised,              \* the exception that ended the invocation, None if none
    previous,            \* the blocks of the invocation before the running one
    suspended,           \* the locals of a second invocation on the same object
    deleting_call,       \* last standalone get_deleting_update_df call: arguments and row
    provision_call       \* last get_provision_diff call: the merged update_df

vars == <<city_model, accessibility, SCENARIO, BLOCKS_LANUSE_DICT, MAX_FACILITIES,
          ORIG_SERVICE_TYPES, NEW_SERVICE_TYPES, FREE_AREA, BRICKS, CONSTANTS_DICT,
          pc, frame, prob, solution, decoded, result, raised, previous, suspended,
          deleting_call, provision_call>>

None == "None"

\* None where the code holds a number or None (an upper bound, MAX_FACILITIES).
NoBound == -1

POPULATION == "population"

EmptyDict == [k \in {} |-> None]

(***************************************************************************)
(* Arithmetic helpers.                                                     *)
(***************************************************************************)
RECURSIVE GCD(_, _)
GCD(a, b) == IF b = 0 THEN a ELSE GCD(b, a % b)

Abs(a) == IF a < 0 THEN -a ELSE a

LCM(a, b) == (a \div GCD(a, b)) * b

\* The fraction n/d (d > 0) in lowest terms.
Rat(n, d) ==
    LET g == GCD(Abs(n), d)
    IN  IF n = 0 THEN [num |-> 0, den |-> 1] ELSE [num |-> n \div g, den |-> d \div g]

RAdd(p, q) ==
    LET l == LCM(p.den, q.den)
    IN  Rat(p.num * (l \div p.den) + q.num * (l \div q.den), l)

RMulInt(p, k) ==
    LET g == GCD(Abs(k), p.den)
    IN  Rat(p.num * (k \div (IF g = 0 THEN 1 ELSE g)), p.den \div (IF g = 0 THEN 1 ELSE g))

RDivInt(p, k) ==
    LET g == GCD(Abs(p.num), k)
    IN  Rat(p.num \div (IF g = 0 THEN 1 ELSE g), p.den * (k \div (IF g = 0 THEN 1 ELSE g)))

RLeq(p, q) ==
    LET l == LCM(p.den, q.den)
    IN  p.num * (l \div p.den) <= q.num * (l \div q.den)

RLess(p, q) == RLeq(p, q) /\ p # q

Zero == Rat(0, 1)

One == Rat(1, 1)

CeilDiv(a, b) == (a + b - 1) \div b

Range(s) == {s[i] : i \in DOMAIN s}

RECURSIVE SumFun(_, _)
\* Sum of the function f over the finite set S of its domain.
SumFun(f, S) ==
    IF S = {} THEN 0
    ELSE LET x == CHOOSE y \in S : TRUE IN f[x] + SumFun(f, S \ {x})

RECURSIVE RSumSeq(_)
\* Sum of a sequence of fractions.
RSumSeq(s) == IF s = <<>> THEN Zero ELSE RAdd(s[1], RSumSeq(Tail(s)))

RECURSIVE Perms(_)
\* All orders in which the finite set S can be iterated.
Perms(S) ==
    IF S = {} THEN {<<>>}
    ELSE UNION {{<<x>> \o p : p \in Perms(S \ {x})} : x \in S}

RECURSIVE Dedup(_)
\* The sequence without repeated elements, first occurrences kept.
Dedup(s) ==
    IF s = <<>> THEN <<>>
    ELSE LET r == Dedup(SubSeq(s, 1, Len(s) - 1))
         IN  IF s[Len(s)] \in Range(r) THEN r ELSE Append(r, s[Len(s)])

(***************************************************************************)
(* Land uses and their indicators.                                         *)
(***************************************************************************)
RESIDENTIAL == "RESIDENTIAL"

BUSINESS == "BUSINESS"

RECREATION == "RECREATION"

SPECIAL == "SPECIAL"

INDUSTRIAL == "INDUSTRIAL"

TRANSPORT == "TRANSPORT"
AGRICULTURE == "AGRICULTURE"

Indicator(FSI_min, FSI_max, site_coverage_min, site_coverage_max) ==
    [FSI_min |-> FSI_min, FSI_max |-> FSI_max,
     site_coverage_min |-> site_coverage_min, site_coverage_max |-> site_coverage_max]

\* FSI and site coverage in hundredths.
LAND_USE_INDICATORS ==
    [RESIDENTIAL |-> Indicator(50, 300, 20, 80),
     BUSINESS    |-> Indicator(100, 300, 0, 80),
     RECREATION  |-> Indicator(5, 20, 0, 30),
     SPECIAL     |-> Indicator(5, 20, 5, 15),
     INDUSTRIAL  |-> Indicator(30, 150, 20, 80),
     AGRICULTURE |-> Indicator(10, 20, 0, 60),
     TRANSPORT   |-> Indicator(20, 100, 0, 80)]

(***************************************************************************)
(* The inputs the model explores: the service catalog, the city, the       *)
(* accessibility tables and the arguments of calculate().                  *)
(***************************************************************************)
BlockIds == {1, 2}

Brick(capacity, area) == [capacity |-> capacity, area |-> area]

\* Service categories: demand per 1000 inhabitants, accessibility threshold, bricks.
SERVICE_TYPES ==
    [A |-> [name |-> "A", demand |-> 1000, accessibility |-> 10,
            bricks |-> <<Brick(50, 500)>>],
     B |-> [name |-> "B", demand |-> 500, accessibility |-> 5,
            bricks |-> <<Brick(100, 1000)>>],
     C |-> [name |-> "C", demand |-> 500, accessibility |-> 5,
            bricks |-> <<>>],
     D |-> [name |-> "D", demand |-> 250, accessibility |-> 10,
            bricks |-> <<Brick(30, 400), Brick(20, 300)>>]]

ServiceNames == DOMAIN SERVICE_TYPES

\* ServiceType.calculate_in_need: the demand of a population.
calculate_in_need(serv, population) == CeilDiv(population * SERVICE_TYPES[serv].demand, 1000)

Service(service_type, capacity) == [service_type |-> service_type, capacity |-> capacity]

\* The service categories tied to each land use, as the city model may hold them.
LandUseServiceMaps ==
    {[RESIDENTIAL |-> <<"A">>, BUSINESS |-> <<"A", "B">>, RECREATION |-> <<"B">>,
      SPECIAL |-> <<"C">>],
     [RESIDENTIAL |-> <<"A", "B">>, BUSINESS |-> <<"B">>, RECREATION |-> <<"A">>,
      SPECIAL |-> <<"C">>]}

\* Block 1 and its neighbour, block 2.
Block1Configs ==
    {[site_area |-> a, land_use |-> RECREATION, population |-> ps[1], all_services |-> ps[2]] :
        a \in {10000, 2000},
        ps \in {<<0, <<>> >>, <<100, <<>> >>,
                <<100, <<Service("A", 10), Service("B", 5)>> >>}}

Block2Configs ==
    {[site_area |-> 2000, land_use |-> RECREATION, population |-> ps[1], all_services |-> ps[2]] :
        ps \in {<<0, <<>> >>, <<0, <<Service("A", 5), Service("B", 5)>> >>,
                <<3, <<Service("A", 5), Service("B", 1)>> >>, <<120, <<>> >>,
                <<200, <<>> >>}}

\* The cities explored: a large converting block where the residential catalog is
\* one brick, a small one under either catalog.
CityModels ==
    {cm \in {[blocks |-> [b \in BlockIds |-> IF b = 1 THEN c1 ELSE c2],
              land_use_service_types |-> m] :
                c1 \in Block1Configs, c2 \in Block2Configs, m \in LandUseServiceMaps} :
        cm.blocks[1].site_area = 10000 => Len(cm.land_use_service_types[RESIDENTIAL]) = 1}

\* accessibility_to / accessibility_from between two different blocks.
AccessibilityCosts == {[to |-> 3, from |-> 3], [to |-> 8, from |-> 20]}

\* The scenarios passed to calculate(): the last two carry a weight above 1 and a
\* category the city model does not know.
Scenarios ==
    {EmptyDict,
     [n \in {"A"} |-> Rat(1, 2)],
     [n \in {"A", "B"} |-> Rat(1, 2)],
     [n \in {"A"} |-> Rat(3, 2)],
     [n \in {"Z"} |-> Rat(1, 2)]}

\* The land-use assignments passed to calculate(): the last two convert block 1 to a
\* land use whose only category has no brick.
BlocksLanduseDicts ==
    {<<[key |-> 1, land_use |-> RESIDENTIAL]>>,
     <<[key |-> 1, land_use |-> BUSINESS]>>,
     <<[key |-> 2, land_use |-> BUSINESS], [key |-> 1, land_use |-> RESIDENTIAL]>>,
     <<[key |-> 1, land_use |-> SPECIAL]>>,
     <<[key |-> 2, land_use |-> BUSINESS], [key |-> 1, land_use |-> SPECIAL]>>}

MaxFacilitiesValues == {NoBound, 5, 15}

\* The population values the solver's search is followed over.
MaxPopulation == 2

(***************************************************************************)
(* The city model's lookups.                                               *)
(***************************************************************************)
Keys(d) == [i \in DOMAIN d |-> d[i].key]

KeySet(d) == {d[i].key : i \in DOMAIN d}

LandUseOf(d, key) == (CHOOSE e \in Range(d) : e.key = key).land_use

get_land_use_service_types(land_use) == city_model.land_use_service_types[land_use]

\* Column capacity_<serv> of get_blocks_gdf: the block's capacity in the category.
CapacityColumn(block, serv) ==
    LET sv == city_model.blocks[block].all_services
    IN  SumFun([i \in DOMAIN sv |-> IF sv[i].service_type = serv THEN sv[i].capacity ELSE 0],
               DOMAIN sv)

(***************************************************************************)
(* Demand/capacity estimator and facility catalog adapter.                 *)
(***************************************************************************)
calculate_free_area(selected_block_id) ==
    (city_model.blocks[selected_block_id].site_area * 8) \div 10

\* The blocks within the category's threshold in both directions.
CatchmentBothDirections(selected_block_id, serv) ==
    {b \in DOMAIN accessibility[selected_block_id] :
        /\ accessibility[selected_block_id][b].to <= SERVICE_TYPES[serv].accessibility
        /\ accessibility[selected_block_id][b].from <= SERVICE_TYPES[serv].accessibility}

\* The catchment of a category around the selected block: the rows of the
\* accessibility table within the category's threshold in either direction.
Catchment(selected_block_id, serv) ==
    {b \in DOMAIN accessibility[selected_block_id] :
        \/ accessibility[selected_block_id][b].to <= SERVICE_TYPES[serv].accessibility
        \/ accessibility[selected_block_id][b].from <= SERVICE_TYPES[serv].accessibility}

\* gdf["population"] after gdf.loc[selected_block_id, "population"] = 0.
ProbePopulation(selected_block_id, b) ==
    IF b = selected_block_id THEN 0 ELSE city_model.blocks[b].population

\* One category's figures in the loop of get_capacity_demand.
ServiceFigures(selected_block_id, serv) ==
    LET own     == CapacityColumn(selected_block_id, serv)
        context == Catchment(selected_block_id, serv)
        need    == [b \in BlockIds |-> calculate_in_need(serv, ProbePopulation(selected_block_id, b))]
        cap     == [b \in BlockIds |-> CapacityColumn(b, serv)]
    IN  [demand_local    |-> SumFun(need, context),
         capacity_local  |-> SumFun(cap, context) - own,
         demand_global   |-> SumFun(need, BlockIds),
         capacity_global |-> SumFun(cap, BlockIds) - own]

RECURSIVE CapacityDemandLoop(_, _, _)
\* The loop of get_capacity_demand over the categories in iteration order:
\* the running minimum (seen = FALSE stands for float("inf")) and its category.
CapacityDemandLoop(selected_block_id, order, acc) ==
    IF order = <<>> THEN acc
    ELSE LET serv == Head(order)
             f    == ServiceFigures(selected_block_id, serv)
             capacity_left == f.capacity_global - f.demand_global
             smaller == ~acc.seen \/ capacity_left < acc.min_capacity_left
         IN  CapacityDemandLoop(selected_block_id, Tail(order),
                [seen              |-> TRUE,
                 min_capacity_left |-> IF smaller THEN capacity_left ELSE acc.min_capacity_left,
                 min_service       |-> IF smaller THEN serv ELSE acc.min_service,
                 constants         |-> [n \in DOMAIN acc.constants \cup {serv} |->
                                          IF n = serv
                                          THEN [demand_local |-> f.demand_local,
                                                capacity_local |-> f.capacity_local]
                                          ELSE acc.constants[n]]])

\* The categories the loop visits: set(NEW) | set(ORIG) of the block.
EstimatedServices(new_service_types, orig_service_types) ==
    Range(new_service_types) \cup Range(orig_service_types)

\* The loop of get_capacity_demand run over the categories in the given order.
CapacityDemandFinal(selected_block_id, order) ==
    CapacityDemandLoop(selected_block_id, order,
        [seen |-> FALSE, min_capacity_left |-> 0, min_service |-> None, constants |-> EmptyDict])

\* get_capacity_demand, with the order in which the set of categories is iterated:
\* (constants, min_population).
get_capacity_demand(selected_block_id, order) ==
    LET final   == CapacityDemandFinal(selected_block_id, order)
        ceiling == Rat(final.min_capacity_left * 1000, SERVICE_TYPES[final.min_service].demand)
    IN  [constants      |-> final.constants,
         min_population |-> IF RLeq(ceiling, Zero) THEN Zero ELSE ceiling]

RECURSIVE get_bricks_df(_)
\* The brick rows {service_type, capacity, area} of the categories, in order.
get_bricks_df(service_types) ==
    IF service_types = <<>> THEN <<>>
    ELSE LET serv == SERVICE_TYPES[Head(service_types)]
         IN  [i \in DOMAIN serv.bricks |->
                 [service_type |-> serv.name,
                  capacity     |-> serv.bricks[i].capacity,
                  area         |-> serv.bricks[i].area]]
             \o get_bricks_df(Tail(service_types))

(***************************************************************************)
(* Constraint model builder.                                               *)
(***************************************************************************)
LpVariable(lowBound, upBound) == [lowBound |-> lowBound, upBound |-> upBound, cat |-> "Integer"]

\* sum(self.SCENARIO[key] for key in intersecting_keys), 0 for an empty scenario.
ScenarioCoefSum(scenario, servs) ==
    LET intersecting_keys == DOMAIN scenario \cap Range(servs)
    IN  RSumSeq([i \in 1..Len(servs) |->
                    IF servs[i] \in intersecting_keys /\ \A j \in 1..(i - 1) : servs[j] # servs[i]
                    THEN scenario[servs[i]] ELSE Zero])

\* The remaining weight divided among the categories the scenario does not list.
DefaultWeightOverUnlisted(scenario, servs) ==
    LET unlisted == Range(servs) \ DOMAIN scenario
    IN  RDivInt(RAdd(One, RMulInt(ScenarioCoefSum(scenario, servs), -1)),
                IF unlisted = {} THEN Len(servs) ELSE Cardinality(unlisted))

\* default_weight = (1 - scenario_coef_sum) / len(self.NEW_SERVICE_TYPES[key])
DefaultWeight(scenario, servs) ==
    RDivInt(RAdd(One, RMulInt(ScenarioCoefSum(scenario, servs), -1)), Len(servs))

\* self.SCENARIO.get(serv.name, default_weight)
ServiceWeight(scenario, servs, serv) ==
    IF serv \in DOMAIN scenario THEN scenario[serv] ELSE DefaultWeight(scenario, servs)

\* fit_function: the capacity coefficient of every brick row, 0 outside the category.
FitFunction(bricks_df, serv) ==
    [n \in DOMAIN bricks_df |-> IF bricks_df[n].service_type = serv THEN bricks_df[n].capacity ELSE 0]

ZeroCoef(bricks_df) == [n \in DOMAIN bricks_df |-> 0]

Constraint(kind, block, serv, coef, popcoef, sense, rhs) ==
    [kind |-> kind, block |-> block, serv |-> serv, coef |-> coef, popcoef |-> popcoef,
     sense |-> sense, rhs |-> rhs]

\* The constraints of a category without the cap on the capacity built in a deficit.
ServiceConstraintsWithoutDeficitCap(key, serv, constants, land_use, bricks_df) ==
    LET demand_local   == constants[serv].demand_local
        capacity_local == constants[serv].capacity_local
    IN  IF capacity_local > demand_local /\ land_use = RESIDENTIAL
        THEN <<Constraint("surplus", key, serv, ZeroCoef(bricks_df),
                          SERVICE_TYPES[serv].demand, "<=",
                          1000 * (capacity_local - demand_local))>>
        ELSE <<>>

\* The constraints of a category with the surplus constraint added whatever the land use.
ServiceConstraintsAnyLandUse(key, serv, constants, land_use, bricks_df) ==
    LET demand_local   == constants[serv].demand_local
        capacity_local == constants[serv].capacity_local
    IN  (IF demand_local > 0 /\ capacity_local < demand_local
         THEN <<Constraint("deficit", key, serv, FitFunction(bricks_df, serv), 0, "<=",
                           demand_local - capacity_local)>>
         ELSE <<>>)
        \o
        (IF capacity_local > demand_local
         THEN <<Constraint("surplus", key, serv, ZeroCoef(bricks_df),
                           SERVICE_TYPES[serv].demand, "<=",
                           1000 * (capacity_local - demand_local))>>
         ELSE <<>>)

\* The constraints one category adds for a block (lines 187-192).
ServiceConstraints(key, serv, constants, land_use, bricks_df) ==
    LET demand_local   == constants[serv].demand_local
        capacity_local == constants[serv].capacity_local
    IN  (IF demand_local > 0 /\ capacity_local < demand_local
         THEN <<Constraint("deficit", key, serv, FitFunction(bricks_df, serv), 0, "<=",
                           demand_local - capacity_local)>>
         ELSE <<>>)
        \o
        (IF capacity_local > demand_local /\ land_use = RESIDENTIAL
         THEN <<Constraint("surplus", key, serv, ZeroCoef(bricks_df),
                           SERVICE_TYPES[serv].demand, "<=",
                           1000 * (capacity_local - demand_local))>>
         ELSE <<>>)

\* An objective term weight * (C_i - D_i) added for every category, in deficit or not.
ServiceObjectiveEveryCategory(key, serv, constants, weight, bricks_df) ==
    <<[block |-> key, serv |-> serv, weight |-> weight,
       coef |-> FitFunction(bricks_df, serv),
       const |-> constants[serv].capacity_local - constants[serv].demand_local,
       popcoef |-> -SERVICE_TYPES[serv].demand]>>

\* The objective term service_weight * (C_i - D_i) one category adds (line 188):
\* weight * (sum(coef * count) + const + popcoef * population / 1000).
ServiceObjective(key, serv, constants, weight, bricks_df) ==
    LET demand_local   == constants[serv].demand_local
        capacity_local == constants[serv].capacity_local
    IN  IF demand_local > 0 /\ capacity_local < demand_local
        THEN <<[block |-> key, serv |-> serv, weight |-> weight,
                coef |-> FitFunction(bricks_df, serv),
                const |-> capacity_local - demand_local,
                popcoef |-> -SERVICE_TYPES[serv].demand]>>
        ELSE <<>>

\* The FSI and area constraints taken from the block's current land use.
BlockConstraintsCurrentLandUse(key, land_use, bricks_df) ==
    LET block_area == city_model.blocks[key].site_area
        indicators == LAND_USE_INDICATORS[city_model.blocks[key].land_use]
    IN  <<Constraint("fsi_max", key, None, [n \in DOMAIN bricks_df |-> 100 * bricks_df[n].area],
                     0, "<=", indicators.FSI_max * block_area),
          Constraint("fsi_min", key, None, [n \in DOMAIN bricks_df |-> 100 * bricks_df[n].area],
                     0, ">=", indicators.FSI_min * block_area),
          Constraint("area", key, None, [n \in DOMAIN bricks_df |-> bricks_df[n].area],
                     0, "<=", block_area)>>

\* The FSI and area constraints of a block (lines 194-207).
BlockConstraints(key, land_use, bricks_df) ==
    LET block_area == city_model.blocks[key].site_area
        indicators == LAND_USE_INDICATORS[land_use]
    IN  <<Constraint("fsi_max", key, None, [n \in DOMAIN bricks_df |-> 100 * bricks_df[n].area],
                     0, "<=", indicators.FSI_max * block_area),
          Constraint("fsi_min", key, None, [n \in DOMAIN bricks_df |-> 100 * bricks_df[n].area],
                     0, ">=", indicators.FSI_min * block_area),
          Constraint("area", key, None, [n \in DOMAIN bricks_df |-> bricks_df[n].area],
                     0, "<=", block_area)>>

RECURSIVE Flatten(_)
Flatten(ss) == IF ss = <<>> THEN <<>> ELSE Head(ss) \o Flatten(Tail(ss))

\* A block's part of the program with the population ceiling as the variable's bound.
BlockSectionCeilingBound(key, land_use, scenario, max_facilities, servs, bricks_df, constants_entry) ==
    LET constants == constants_entry.constants
    IN  [service_counts |-> [n \in DOMAIN bricks_df |-> LpVariable(0, max_facilities)],
         population     |-> LpVariable(0, constants_entry.min_population.num
                                          \div constants_entry.min_population.den),
         constraints    |->
            Flatten([i \in DOMAIN servs |->
                        ServiceConstraints(key, servs[i], constants, land_use, bricks_df)])
            \o BlockConstraints(key, land_use, bricks_df),
         objective      |->
            Flatten([i \in DOMAIN servs |->
                        ServiceObjective(key, servs[i], constants,
                                         ServiceWeight(scenario, servs, servs[i]), bricks_df)])]

\* One block's part of the program: its variables, constraints and objective terms.
BlockSection(key, land_use, scenario, max_facilities, servs, bricks_df, constants_entry) ==
    LET constants == constants_entry.constants
    IN  [service_counts |-> [n \in DOMAIN bricks_df |-> LpVariable(0, max_facilities)],
         population     |-> LpVariable(0, NoBound),
         constraints    |->
            Flatten([i \in DOMAIN servs |->
                        ServiceConstraints(key, servs[i], constants, land_use, bricks_df)])
            \o BlockConstraints(key, land_use, bricks_df),
         objective      |->
            Flatten([i \in DOMAIN servs |->
                        ServiceObjective(key, servs[i], constants,
                                         ServiceWeight(scenario, servs, servs[i]), bricks_df)])]

\* The builder with the constants of the first block used for every block.
generate_lp_problem_first_block_constants(constants_dict) ==
    LET keys == Keys(BLOCKS_LANUSE_DICT)
        section == [key \in KeySet(BLOCKS_LANUSE_DICT) |->
                       BlockSection(key, LandUseOf(BLOCKS_LANUSE_DICT, key), SCENARIO,
                                    MAX_FACILITIES, NEW_SERVICE_TYPES[key], BRICKS[key],
                                    [constants |->
                                        [n \in DOMAIN constants_dict[key].constants |->
                                            IF n \in DOMAIN constants_dict[keys[1]].constants
                                            THEN constants_dict[keys[1]].constants[n]
                                            ELSE constants_dict[key].constants[n]],
                                     min_population |-> constants_dict[key].min_population])]
    IN  [sense          |-> "LpMaximize",
         keys           |-> keys,
         service_counts |-> [key \in KeySet(BLOCKS_LANUSE_DICT) |-> section[key].service_counts],
         population     |-> [key \in KeySet(BLOCKS_LANUSE_DICT) |-> section[key].population],
         constraints    |-> Flatten([i \in DOMAIN keys |-> section[keys[i]].constraints]),
         objective      |-> Flatten([i \in DOMAIN keys |-> section[keys[i]].objective])]

\* generate_lp_problem over the optimizer's fields, for the given CONSTANTS.
generate_lp_problem(constants_dict) ==
    LET keys == Keys(BLOCKS_LANUSE_DICT)
        section == [key \in KeySet(BLOCKS_LANUSE_DICT) |->
                       BlockSection(key, LandUseOf(BLOCKS_LANUSE_DICT, key), SCENARIO,
                                    MAX_FACILITIES, NEW_SERVICE_TYPES[key], BRICKS[key],
                                    constants_dict[key])]
    IN  [sense          |-> "LpMaximize",
         keys           |-> keys,
         service_counts |-> [key \in KeySet(BLOCKS_LANUSE_DICT) |-> section[key].service_counts],
         population     |-> [key \in KeySet(BLOCKS_LANUSE_DICT) |-> section[key].population],
         constraints    |-> Flatten([i \in DOMAIN keys |-> section[keys[i]].constraints]),
         objective      |-> Flatten([i \in DOMAIN keys |-> section[keys[i]].objective])]

(***************************************************************************)
(* Optimization engine: prob.solve(PULP_CBC_CMD(msg=False)).  The solver   *)
(* is opaque: it reports a status and, when optimal, any one of the        *)
(* assignments that maximise the objective over the feasible set.          *)
(***************************************************************************)
ConstraintsOf(p, key) == {c \in Range(p.constraints) : c.block = key}

ObjectiveOf(p, key) == {t \in Range(p.objective) : t.block = key}

\* prob.variables() holds a variable only if a constraint or the objective mentions it.
PopulationInProblem(p, key) ==
    \/ \E c \in ConstraintsOf(p, key) : c.popcoef # 0
    \/ ObjectiveOf(p, key) # {}

MinOf(S) == CHOOSE m \in S : \A v \in S : m <= v

\* The largest value a "<=" constraint with non-negative coefficients leaves to
\* a brick variable (NoBound when no constraint limits it).
ImpliedCountBound(p, key, n) ==
    LET limits == {c.rhs \div c.coef[n] :
                     c \in {d \in ConstraintsOf(p, key) :
                              /\ d.sense = "<=" /\ d.coef[n] > 0 /\ d.popcoef >= 0 /\ d.rhs >= 0
                              /\ \A m \in DOMAIN d.coef : d.coef[m] >= 0}}
    IN  IF limits = {} THEN NoBound ELSE MinOf(limits)

CountBound(p, key, n) ==
    LET up      == p.service_counts[key][n].upBound
        implied == ImpliedCountBound(p, key, n)
    IN  IF up = NoBound THEN implied
        ELSE IF implied = NoBound THEN up
        ELSE IF implied < up THEN implied ELSE up

\* The bound the constraints put on a block's population variable (NoBound: unbounded above).
ImpliedPopulationBound(p, key) ==
    LET limits == {c.rhs \div c.popcoef :
                     c \in {d \in ConstraintsOf(p, key) :
                              /\ d.sense = "<=" /\ d.popcoef > 0 /\ d.rhs >= 0
                              /\ \A m \in DOMAIN d.coef : d.coef[m] = 0}}
    IN  IF limits = {} THEN NoBound ELSE MinOf(limits)

\* The population values followed: 0..MaxPopulation within the implied bound, and
\* the implied bound itself (where a rising objective has its maximum).
PopulationValues(p, key) ==
    LET implied == ImpliedPopulationBound(p, key)
        up      == p.population[key].upBound
        top     == IF up = NoBound THEN implied
                   ELSE IF implied = NoBound THEN up
                   ELSE IF implied < up THEN implied ELSE up
    IN  IF ~PopulationInProblem(p, key) THEN {0}
        ELSE IF top = NoBound THEN 0..MaxPopulation
        ELSE {v \in 0..MaxPopulation : v <= top} \cup {top}

CountValues(p, key) ==
    LET idx == DOMAIN p.service_counts[key]
        top == [n \in idx |-> CountBound(p, key, n)]
        hi  == IF idx = {} THEN 0 ELSE CHOOSE m \in {top[n] : n \in idx} : \A n \in idx : top[n] <= m
    IN  {f \in [idx -> 0..hi] : \A n \in idx : f[n] <= top[n]}

\* The assignments of one block's variables within their bounds.
BlockAssignments(p, key) ==
    {[counts |-> f, population |-> v] : f \in CountValues(p, key), v \in PopulationValues(p, key)}

LinearValue(coef, popcoef, b) ==
    SumFun([n \in DOMAIN coef |-> coef[n] * b.counts[n]], DOMAIN coef) + popcoef * b.population

Satisfies(c, b) ==
    IF c.sense = "<=" THEN LinearValue(c.coef, c.popcoef, b) <= c.rhs
    ELSE LinearValue(c.coef, c.popcoef, b) >= c.rhs

BlockFeasible(p, key) ==
    {b \in BlockAssignments(p, key) : \A c \in ConstraintsOf(p, key) : Satisfies(c, b)}

RECURSIVE Product(_, _)
\* The functions over the keys that take, at every key, one of its choices.
Product(keys, choices) ==
    IF keys = <<>> THEN {EmptyDict}
    ELSE {[k \in DOMAIN x \cup {Head(keys)} |-> IF k = Head(keys) THEN a ELSE x[k]] :
             a \in choices[Head(keys)], x \in Product(Tail(keys), choices)}

\* The joint assignments built from per-block choices.
Joint(p, choices) == Product(p.keys, choices)

Feasible(p) ==
    UNION {Joint(p, choices) :
             choices \in {[k \in Range(p.keys) |-> BlockFeasible(p, k)]}}

\* weight * (sum(coef * count) + const + popcoef * population / 1000)
TermValue(t, x) ==
    RDivInt(RMulInt(t.weight,
                    1000 * (LinearValue(t.coef, 0, x[t.block]) + t.const)
                    + t.popcoef * x[t.block].population),
            1000)

\* prob.objective.value() for the assignment.
ObjectiveValue(p, x) == RSumSeq([i \in DOMAIN p.objective |-> TermValue(p.objective[i], x)])

RECURSIVE LCMSeq(_)
LCMSeq(s) == IF s = <<>> THEN 1 ELSE LCM(s[1], LCMSeq(Tail(s)))

\* A common denominator of the objective's weights.
WeightDen(p) == LCMSeq([i \in DOMAIN p.objective |-> p.objective[i].weight.den])

\* The objective times 1000 * den, an integer: what the solver compares.
ScaledObjective(p, den, x) ==
    SumFun([i \in DOMAIN p.objective |->
               LET t == p.objective[i]
               IN  t.weight.num * (den \div t.weight.den)
                   * (1000 * (LinearValue(t.coef, 0, x[t.block]) + t.const)
                      + t.popcoef * x[t.block].population)],
           DOMAIN p.objective)

\* The population variable's coefficient in the objective, times 1000.
PopulationObjectiveCoef(p, key) ==
    RSumSeq([i \in DOMAIN p.objective |->
                IF p.objective[i].block = key
                THEN RMulInt(p.objective[i].weight, p.objective[i].popcoef) ELSE Zero])

Unbounded(p) ==
    \E k \in Range(p.keys) :
        /\ PopulationInProblem(p, k)
        /\ ImpliedPopulationBound(p, k) = NoBound
        /\ p.population[k].upBound = NoBound
        /\ RLess(Zero, PopulationObjectiveCoef(p, k))

StatusOf(p, F) ==
    IF F = {} THEN "Infeasible"
    ELSE IF Unbounded(p) THEN "Unbounded"
    ELSE "Optimal"

LpStatus(p) == StatusOf(p, Feasible(p))

MaxOf(S) == CHOOSE m \in S : \A v \in S : v <= m

\* The assignments of F that maximise the objective.
OptimaOf(p, F) ==
    UNION {UNION {{x \in F : ScaledObjective(p, den, x) = best} :
                    best \in {MaxOf({ScaledObjective(p, den, x) : x \in F})}} :
             den \in {WeightDen(p)}}

Optima(p) == UNION {OptimaOf(p, F) : F \in {Feasible(p)}}

\* Values left in the variables by a solve that was not optimal: every variable at
\* its lower bound, or every brick variable at the top of its range.
Meaningless(p) ==
    Joint(p, [k \in Range(p.keys) |->
                {[counts |-> [n \in DOMAIN p.service_counts[k] |-> 0], population |-> 0],
                 [counts |-> [n \in DOMAIN p.service_counts[k] |-> CountBound(p, k, n)],
                  population |-> 0]}])

SolverOutcomes(p) ==
    UNION {{[status |-> StatusOf(p, F), values |-> x] :
              x \in IF StatusOf(p, F) = "Optimal" THEN OptimaOf(p, F) ELSE Meaningless(p)} :
             F \in {Feasible(p)}}

(***************************************************************************)
(* Data frames: the columns, and for every index label the cells that are  *)
(* not NaN.                                                                *)
(***************************************************************************)
\* pd.DataFrame.from_dict(update, orient="index")
FromDict(update) ==
    [columns |-> UNION {DOMAIN update[k] : k \in DOMAIN update},
     rows    |-> update]

fillna0(df) ==
    [columns |-> df.columns,
     rows    |-> [k \in DOMAIN df.rows |->
                    [c \in df.columns |-> IF c \in DOMAIN df.rows[k] THEN df.rows[k][c] ELSE 0]]]

\* The merge with b's cells taking priority over a's.
combine_last(a, b) ==
    [columns |-> a.columns \cup b.columns,
     rows    |-> [k \in DOMAIN a.rows \cup DOMAIN b.rows |->
                    LET ra == IF k \in DOMAIN a.rows THEN a.rows[k] ELSE EmptyDict
                        rb == IF k \in DOMAIN b.rows THEN b.rows[k] ELSE EmptyDict
                    IN  [c \in DOMAIN ra \cup DOMAIN rb |->
                            IF c \in DOMAIN rb THEN rb[c] ELSE ra[c]]]]

\* a.combine_first(b): a's cells, the holes filled from b, over the union of labels.
combine_first(a, b) ==
    [columns |-> a.columns \cup b.columns,
     rows    |-> [k \in DOMAIN a.rows \cup DOMAIN b.rows |->
                    LET ra == IF k \in DOMAIN a.rows THEN a.rows[k] ELSE EmptyDict
                        rb == IF k \in DOMAIN b.rows THEN b.rows[k] ELSE EmptyDict
                    IN  [c \in DOMAIN ra \cup DOMAIN rb |->
                            IF c \in DOMAIN ra THEN ra[c] ELSE rb[c]]]]

(***************************************************************************)
(* Solution decoder and demolition delta builder.                          *)
(***************************************************************************)
\* counts[key] after the loop over prob.variables(): zeros, then the solved values.
DecodedCounts(p, values, key) ==
    [n \in DOMAIN BRICKS[key] |->
        IF key \in DOMAIN values /\ n \in DOMAIN values[key].counts
        THEN values[key].counts[n] ELSE 0]

\* populations.get(key, 0)
DecodedPopulation(p, values, key) ==
    IF key \in DOMAIN values /\ PopulationInProblem(p, key) THEN values[key].population ELSE 0

\* The breakdown with every catalog row kept, built or not.
BricksToBuildAllRows(p, values, key) ==
    LET counts    == DecodedCounts(p, values, key)
        constants == CONSTANTS_DICT[key].constants
    IN  [n \in DOMAIN BRICKS[key] |->
            [idx            |-> n,
             service_type   |-> BRICKS[key][n].service_type,
             capacity       |-> BRICKS[key][n].capacity,
             area           |-> BRICKS[key][n].area,
             capacity_agg   |-> BRICKS[key][n].capacity * counts[n],
             area_agg       |-> BRICKS[key][n].area * counts[n],
             service_counts |-> counts[n],
             demand_in_need |-> constants[BRICKS[key][n].service_type].demand_local
                                - constants[BRICKS[key][n].service_type].capacity_local]]

\* bricks_to_build_df[key]: the rows with a non-zero count, in row order.
BricksToBuild(p, values, key) ==
    LET counts    == DecodedCounts(p, values, key)
        constants == CONSTANTS_DICT[key].constants
        row(n)    == [idx            |-> n,
                      service_type   |-> BRICKS[key][n].service_type,
                      capacity       |-> BRICKS[key][n].capacity,
                      area           |-> BRICKS[key][n].area,
                      capacity_agg   |-> BRICKS[key][n].capacity * counts[n],
                      area_agg       |-> BRICKS[key][n].area * counts[n],
                      service_counts |-> counts[n],
                      demand_in_need |-> constants[BRICKS[key][n].service_type].demand_local
                                         - constants[BRICKS[key][n].service_type].capacity_local]
    IN  SelectSeq([n \in DOMAIN BRICKS[key] |-> row(n)], LAMBDA r : r.service_counts # 0)

\* update[key]: capacity_agg summed per service type, and the population when positive.
ServiceCapacities(p, values, key) ==
    LET rows       == BricksToBuild(p, values, key)
        types      == {rows[i].service_type : i \in DOMAIN rows}
        population == DecodedPopulation(p, values, key)
    IN  [c \in types \cup (IF population > 0 THEN {POPULATION} ELSE {}) |->
            IF c = POPULATION THEN population
            ELSE SumFun([i \in DOMAIN rows |->
                            IF rows[i].service_type = c THEN rows[i].capacity_agg ELSE 0],
                        DOMAIN rows)]

get_optimal_update_df(p, values) ==
    [update_df          |-> FromDict([key \in KeySet(BLOCKS_LANUSE_DICT) |->
                                         ServiceCapacities(p, values, key)]),
     bricks_to_build_df |-> [key \in KeySet(BLOCKS_LANUSE_DICT) |-> BricksToBuild(p, values, key)],
     provision          |-> ObjectiveValue(p, values)]

RECURSIVE DeletingLoop(_, _)
\* service_capacities[service_type] = -capacity for every installed service, in order.
DeletingLoop(all_services, service_capacities) ==
    IF all_services = <<>> THEN service_capacities
    ELSE LET serv == Head(all_services)
         IN  DeletingLoop(Tail(all_services),
                [c \in DOMAIN service_capacities \cup {serv.service_type} |->
                    IF c = serv.service_type THEN -serv.capacity ELSE service_capacities[c]])

\* The row with the population entry written whatever the flag.
DeletingRowAlwaysPopulation(selected_block_id, delete_population) ==
    LET selected_block     == city_model.blocks[selected_block_id]
        service_capacities == DeletingLoop(selected_block.all_services, EmptyDict)
    IN  [c \in DOMAIN service_capacities \cup {POPULATION} |->
            IF c = POPULATION THEN -selected_block.population ELSE service_capacities[c]]

\* The row get_deleting_update_df builds for the block.
DeletingRow(selected_block_id, delete_population) ==
    LET selected_block     == city_model.blocks[selected_block_id]
        service_capacities == DeletingLoop(selected_block.all_services, EmptyDict)
    IN  IF delete_population
        THEN [c \in DOMAIN service_capacities \cup {POPULATION} |->
                 IF c = POPULATION THEN -selected_block.population ELSE service_capacities[c]]
        ELSE service_capacities

get_deleting_update_df(selected_block_id, delete_population) ==
    FromDict([k \in {selected_block_id} |-> DeletingRow(selected_block_id, delete_population)])

\* pd.concat(dfs, ignore_index=True): the rows in order under a fresh 0..n-1 index.
ConcatIgnoreIndex(dfs) ==
    [columns |-> UNION {dfs[i].columns : i \in DOMAIN dfs},
     rows    |-> [i \in 0..(Len(dfs) - 1) |->
                    LET df == dfs[i + 1] IN df.rows[CHOOSE k \in DOMAIN df.rows : TRUE]]]

(***************************************************************************)
(* The state machine: calculate() step by step, and the standalone calls.  *)
(***************************************************************************)
\* The table the accessibility provider returns for every focal block: a row per
\* other block, and a row of cost 0 for the focal block itself when the provider
\* lists it.
AccessibilityTable(c, focal_listed) ==
    [i \in BlockIds |-> [j \in (IF focal_listed THEN BlockIds ELSE BlockIds \ {i}) |->
        IF i = j THEN [to |-> 0, from |-> 0]
        ELSE IF i < j THEN c
        ELSE [to |-> c.from, from |-> c.to]]]

\* The providers explored: the focal block listed under either cost, left out
\* under the first.
AccessibilityTables ==
    {AccessibilityTable(c, TRUE) : c \in AccessibilityCosts}
    \cup {AccessibilityTable([to |-> 3, from |-> 3], FALSE)}

NotCalled == [called |-> FALSE]

\* The parameters of an invocation of calculate() and the iterator of its loop.
Frame(blocks_landuse_dict, scenario, max_facilities) ==
    [blocks_landuse_dict |-> blocks_landuse_dict,
     scenario            |-> scenario,
     max_facilities      |-> max_facilities,
     todo                |-> Keys(blocks_landuse_dict)]

NoFrame == Frame(<<>>, EmptyDict, NoBound)

\* The locals of an invocation that has not started.
NotStarted ==
    [pc |-> "idle", frame |-> NoFrame, prob |-> None, solution |-> None,
     decoded |-> None, result |-> None, raised |-> None]

\* The optimizer object after construction: the class attributes of lines 36-44,
\* and no call made yet.
InitObject ==
    /\ SCENARIO = EmptyDict
    /\ BLOCKS_LANUSE_DICT = <<>>
    /\ MAX_FACILITIES = NoBound
    /\ ORIG_SERVICE_TYPES = EmptyDict
    /\ NEW_SERVICE_TYPES = EmptyDict
    /\ FREE_AREA = EmptyDict
    /\ BRICKS = EmptyDict
    /\ CONSTANTS_DICT = EmptyDict
    /\ pc = "idle"
    /\ frame = NoFrame
    /\ prob = None
    /\ solution = None
    /\ decoded = None
    /\ result = None
    /\ raised = None
    /\ previous = <<>>
    /\ suspended = NotStarted
    /\ deleting_call = NotCalled
    /\ provision_call = NotCalled

Init ==
    /\ city_model \in CityModels
    /\ accessibility \in AccessibilityTables
    /\ InitObject

\* The start of an invocation that leaves the maps of the last invocation in place.
CalculateKeepingMaps(blocks_landuse_dict, scenario, max_facilities) ==
    /\ pc \in {"idle", "done", "raised"}
    /\ frame' = Frame(blocks_landuse_dict, scenario, max_facilities)
    /\ previous' = Keys(BLOCKS_LANUSE_DICT)
    /\ SCENARIO' = scenario
    /\ BLOCKS_LANUSE_DICT' = blocks_landuse_dict
    /\ MAX_FACILITIES' = max_facilities
    /\ pc' = "estimate"
    /\ prob' = None
    /\ solution' = None
    /\ decoded' = None
    /\ result' = None
    /\ raised' = None
    /\ deleting_call' = NotCalled
    /\ provision_call' = NotCalled
    /\ UNCHANGED <<city_model, accessibility, suspended, ORIG_SERVICE_TYPES,
                   NEW_SERVICE_TYPES, FREE_AREA, BRICKS, CONSTANTS_DICT>>

\* calculate(), lines 367-377: a new invocation starts once the last one has
\* returned or raised; the arguments are stored, the maps emptied and the loop's
\* iterator taken.
Calculate(blocks_landuse_dict, scenario, max_facilities) ==
    /\ pc \in {"idle", "done", "raised"}
    /\ frame' = Frame(blocks_landuse_dict, scenario, max_facilities)
    /\ previous' = Keys(BLOCKS_LANUSE_DICT)
    /\ SCENARIO' = scenario
    /\ BLOCKS_LANUSE_DICT' = blocks_landuse_dict
    /\ MAX_FACILITIES' = max_facilities
    /\ ORIG_SERVICE_TYPES' = EmptyDict
    /\ NEW_SERVICE_TYPES' = EmptyDict
    /\ FREE_AREA' = EmptyDict
    /\ BRICKS' = EmptyDict
    /\ CONSTANTS_DICT' = EmptyDict
    /\ pc' = "estimate"
    /\ prob' = None
    /\ solution' = None
    /\ decoded' = None
    /\ result' = None
    /\ raised' = None
    /\ deleting_call' = NotCalled
    /\ provision_call' = NotCalled
    /\ UNCHANGED <<city_model, accessibility, suspended>>

Put(dict, key, value) == [k \in DOMAIN dict \cup {key} |-> IF k = key THEN value ELSE dict[k]]

\* The next key of the loop of lines 377-385.
NextKey == Head(frame.todo)

\* The city model with the probe written through to the block itself.
CityAfterProbeWrittenThrough(selected_block_id) ==
    [city_model EXCEPT !.blocks[selected_block_id].population = 0]

\* The city model after get_capacity_demand(selected_block_id): the population probe
\* of line 55 is written to gdf, the table get_blocks_gdf built for this call.
CityAfterProbe(selected_block_id) == city_model

\* One iteration of the loop of lines 377-385.
EstimateBlock ==
    /\ pc = "estimate"
    /\ LET key == NextKey
           orig_service_types == get_land_use_service_types(city_model.blocks[key].land_use)
           new_service_types  == get_land_use_service_types(
                                     LandUseOf(frame.blocks_landuse_dict, key))
       IN  /\ ORIG_SERVICE_TYPES' = Put(ORIG_SERVICE_TYPES, key, orig_service_types)
           /\ NEW_SERVICE_TYPES' = Put(NEW_SERVICE_TYPES, key, new_service_types)
           /\ FREE_AREA' = Put(FREE_AREA, key, calculate_free_area(key))
           /\ \E order \in Perms(EstimatedServices(new_service_types, orig_service_types)) :
                 CONSTANTS_DICT' = Put(CONSTANTS_DICT, key, get_capacity_demand(key, order))
           /\ BRICKS' = Put(BRICKS, key, get_bricks_df(new_service_types))
           /\ city_model' = CityAfterProbe(key)
    /\ frame' = [frame EXCEPT !.todo = Tail(frame.todo)]
    /\ pc' = IF Tail(frame.todo) = <<>> THEN "generate" ELSE "estimate"
    /\ UNCHANGED <<accessibility, SCENARIO, BLOCKS_LANUSE_DICT, MAX_FACILITIES,
                   prob, solution, decoded, result, raised, previous, suspended,
                   deleting_call, provision_call>>

\* The exception generate_lp_problem raises in a block's iteration, None if it
\* raises none: a key missing from a map (lines 160-168), a division by the number
\* of candidate categories (line 166), the service_type column of a catalog without
\* rows (line 173).
BuilderErrorAt(key) ==
    IF key \notin DOMAIN NEW_SERVICE_TYPES THEN "KeyError"
    ELSE IF Len(NEW_SERVICE_TYPES[key]) = 0 THEN "ZeroDivisionError"
    ELSE IF key \notin DOMAIN BRICKS \/ key \notin DOMAIN CONSTANTS_DICT THEN "KeyError"
    ELSE IF BRICKS[key] = <<>> THEN "AttributeError"
    ELSE None

\* The exception of the first failing iteration of the loop of line 158.
BuilderError ==
    LET keys == Keys(BLOCKS_LANUSE_DICT)
        bad  == {i \in DOMAIN keys : BuilderErrorAt(keys[i]) # None}
    IN  IF bad = {} THEN None ELSE BuilderErrorAt(keys[MinOf(bad)])

\* Line 388.
GenerateLp ==
    /\ pc = "generate"
    /\ IF BuilderError = None
       THEN /\ prob' = generate_lp_problem(CONSTANTS_DICT)
            /\ pc' = "solve"
            /\ raised' = raised
       ELSE /\ prob' = prob
            /\ pc' = "raised"
            /\ raised' = BuilderError
    /\ UNCHANGED <<city_model, accessibility, SCENARIO, BLOCKS_LANUSE_DICT, MAX_FACILITIES,
                   ORIG_SERVICE_TYPES, NEW_SERVICE_TYPES, FREE_AREA, BRICKS, CONSTANTS_DICT,
                   frame, solution, decoded, result, previous, suspended,
                   deleting_call, provision_call>>

\* Lines 389-390: the solve, and the status printed.
Solve ==
    /\ pc = "solve"
    /\ solution' \in SolverOutcomes(prob)
    /\ pc' = "decode"
    /\ UNCHANGED <<city_model, accessibility, SCENARIO, BLOCKS_LANUSE_DICT, MAX_FACILITIES,
                   ORIG_SERVICE_TYPES, NEW_SERVICE_TYPES, FREE_AREA, BRICKS, CONSTANTS_DICT,
                   frame, prob, decoded, result, raised, previous, suspended,
                   deleting_call, provision_call>>

\* BRICKS after the decoder's .loc assignments of capacity_agg and area_agg.
BricksAfterDecode(values) ==
    [key \in DOMAIN BRICKS |->
        [n \in DOMAIN BRICKS[key] |->
            IF key \in DOMAIN values /\ n \in DOMAIN values[key].counts
            THEN [service_type |-> BRICKS[key][n].service_type,
                  capacity     |-> BRICKS[key][n].capacity,
                  area         |-> BRICKS[key][n].area,
                  capacity_agg |-> BRICKS[key][n].capacity * values[key].counts[n],
                  area_agg     |-> BRICKS[key][n].area * values[key].counts[n]]
            ELSE BRICKS[key][n]]]

\* prob.variables() after the solve of a program whose objective is a constant (no
\* category in deficit): whether the engine lists the placeholder variable it adds
\* to such an objective, whose name is not of the form <block>_<index>.
PlaceholderListed(p) == IF p.objective = <<>> THEN BOOLEAN ELSE {FALSE}

\* The exception get_optimal_update_df raises, None if it raises none: a variable of
\* the program whose block or row the catalogs do not hold (lines 124-128), a
\* variable name that does not split in two at "_" (line 118; the names sort after
\* those of the bricks), a block of BLOCKS_LANUSE_DICT without catalog or constants
\* (lines 133-137).
DecoderError(p, placeholder) ==
    IF \E k \in Range(p.keys) : k \notin DOMAIN BRICKS THEN "KeyError"
    ELSE IF \E k \in Range(p.keys) : ~(DOMAIN p.service_counts[k] \subseteq DOMAIN BRICKS[k])
         THEN "IndexError"
    ELSE IF placeholder THEN "ValueError"
    ELSE IF \E k \in KeySet(BLOCKS_LANUSE_DICT) :
               k \notin DOMAIN BRICKS \/ k \notin DOMAIN CONSTANTS_DICT THEN "KeyError"
    ELSE None

\* Line 391: the decoder runs whatever the status.
Decode ==
    /\ pc = "decode"
    /\ \E placeholder \in PlaceholderListed(prob) :
          IF DecoderError(prob, placeholder) = None
          THEN /\ decoded' = get_optimal_update_df(prob, solution.values)
               /\ BRICKS' = BricksAfterDecode(solution.values)
               /\ pc' = "deleting"
               /\ raised' = raised
          ELSE /\ decoded' = decoded
               /\ BRICKS' = IF DecoderError(prob, placeholder) = "ValueError"
                             THEN BricksAfterDecode(solution.values) ELSE BRICKS
               /\ pc' = "raised"
               /\ raised' = DecoderError(prob, placeholder)
    /\ UNCHANGED <<city_model, accessibility, SCENARIO, BLOCKS_LANUSE_DICT, MAX_FACILITIES,
                   ORIG_SERVICE_TYPES, NEW_SERVICE_TYPES, FREE_AREA, CONSTANTS_DICT,
                   frame, prob, solution, result, previous, suspended,
                   deleting_call, provision_call>>

\* Lines 393-404: the demolition table and the result bundle.
BuildResult ==
    /\ pc = "deleting"
    /\ LET keys == Keys(BLOCKS_LANUSE_DICT)
           dfs  == [i \in DOMAIN keys |-> get_deleting_update_df(keys[i], TRUE)]
       IN  result' = [optimal_update_df  |-> fillna0(decoded.update_df),
                      bricks_to_build_df |-> decoded.bricks_to_build_df,
                      deleting_df        |-> fillna0(ConcatIgnoreIndex(dfs)),
                      provision          |-> decoded.provision]
    /\ pc' = "done"
    /\ UNCHANGED <<city_model, accessibility, SCENARIO, BLOCKS_LANUSE_DICT, MAX_FACILITIES,
                   ORIG_SERVICE_TYPES, NEW_SERVICE_TYPES, FREE_AREA, BRICKS, CONSTANTS_DICT,
                   frame, prob, solution, decoded, raised, previous, suspended,
                   deleting_call, provision_call>>

\* A standalone call of get_deleting_update_df.
GetDeletingUpdateDf(selected_block_id, delete_population) ==
    /\ pc = "idle"
    /\ deleting_call' = [called            |-> TRUE,
                         selected_block_id |-> selected_block_id,
                         delete_population |-> delete_population,
                         update_df         |-> get_deleting_update_df(selected_block_id,
                                                                      delete_population)]
    /\ UNCHANGED <<city_model, accessibility, SCENARIO, BLOCKS_LANUSE_DICT, MAX_FACILITIES,
                   ORIG_SERVICE_TYPES, NEW_SERVICE_TYPES, FREE_AREA, BRICKS, CONSTANTS_DICT,
                   pc, frame, prob, solution, decoded, result, raised, previous, suspended,
                   provision_call>>

\* get_provision_diff, lines 357-359, on the allocation table of the result bundle:
\* the update handed to the provision engine for the selected block.
GetProvisionDiff(SELECTED_BLOCK) ==
    /\ pc = "done"
    /\ LET optimal_update_df  == result.optimal_update_df
           deleting_update_df == get_deleting_update_df(SELECTED_BLOCK, TRUE)
       IN  provision_call' = [called             |-> TRUE,
                              SELECTED_BLOCK     |-> SELECTED_BLOCK,
                              optimal_update_df  |-> optimal_update_df,
                              deleting_update_df |-> deleting_update_df,
                              update_df          |-> combine_first(optimal_update_df,
                                                                   deleting_update_df)]
    /\ UNCHANGED <<city_model, accessibility, SCENARIO, BLOCKS_LANUSE_DICT, MAX_FACILITIES,
                   ORIG_SERVICE_TYPES, NEW_SERVICE_TYPES, FREE_AREA, BRICKS, CONSTANTS_DICT,
                   pc, frame, prob, solution, decoded, result, raised, previous, suspended,
                   deleting_call>>

Next ==
    \/ \E d \in BlocksLanduseDicts, s \in Scenarios, m \in MaxFacilitiesValues :
          pc = "idle" /\ Calculate(d, s, m)
    \/ EstimateBlock
    \/ GenerateLp
    \/ Solve
    \/ Decode
    \/ BuildResult
    \/ \E b \in BlockIds, f \in BOOLEAN : GetDeletingUpdateDf(b, f)
    \/ \E b \in KeySet(BLOCKS_LANUSE_DICT) : GetProvisionDiff(b)

\* A new optimizer object and its first invocation of calculate().
Spec == Init /\ [][Next]_vars

(***************************************************************************)
(* Several invocations on one optimizer object, over a smaller set of       *)
(* inputs: one after the other (SpecSequential), and two whose steps        *)
(* interleave (SpecInterleaved).  The object's fields are shared, the       *)
(* locals of calculate() belong to each invocation.                         *)
(***************************************************************************)
SmallCityModels ==
    {cm \in CityModels :
        /\ cm.blocks[1].site_area = 2000
        /\ cm.blocks[1].population = 100
        /\ cm.blocks[1].all_services # <<>>
        /\ cm.blocks[2].population = 200}

SmallScenarios == {EmptyDict, [n \in {"A"} |-> Rat(1, 2)]}

SmallMaxFacilitiesValues == {NoBound, 5}

InitSmall == Init /\ city_model \in SmallCityModels

\* The scheduler passes from the running invocation to the other one: the locals are
\* exchanged, the object's fields stay as they are.
Switch ==
    /\ suspended' = [pc |-> pc, frame |-> frame, prob |-> prob, solution |-> solution,
                     decoded |-> decoded, result |-> result, raised |-> raised]
    /\ pc' = suspended.pc
    /\ frame' = suspended.frame
    /\ prob' = suspended.prob
    /\ solution' = suspended.solution
    /\ decoded' = suspended.decoded
    /\ result' = suspended.result
    /\ raised' = suspended.raised
    /\ UNCHANGED <<city_model, accessibility, SCENARIO, BLOCKS_LANUSE_DICT, MAX_FACILITIES,
                   ORIG_SERVICE_TYPES, NEW_SERVICE_TYPES, FREE_AREA, BRICKS, CONSTANTS_DICT,
                   previous, deleting_call, provision_call>>

NextSequential ==
    \/ \E d \in BlocksLanduseDicts, s \in SmallScenarios, m \in SmallMaxFacilitiesValues :
          Calculate(d, s, m)
    \/ EstimateBlock
    \/ GenerateLp
    \/ Solve
    \/ Decode
    \/ BuildResult

\* One optimizer object, its invocations of calculate() one after the other.
SpecSequential == InitSmall /\ [][NextSequential]_vars

NextInterleaved ==
    \/ \E d \in BlocksLanduseDicts, s \in SmallScenarios :
          pc = "idle" /\ Calculate(d, s, 5)
    \/ EstimateBlock
    \/ GenerateLp
    \/ Solve
    \/ Decode
    \/ BuildResult
    \/ Switch

\* One optimizer object and two invocations of calculate() whose steps interleave.
SpecInterleaved == InitSmall /\ [][NextInterleaved]_vars

(***************************************************************************)
(* A city with a wider catalog: land uses of three categories, one of them  *)
(* with two bricks, a block holding two facilities of one category, and     *)
(* scenarios whose weights, each within [0, 1], sum to more than 1.         *)
(***************************************************************************)
WideLandUseServiceMap ==
    [RESIDENTIAL |-> <<"A", "B", "D">>, INDUSTRIAL |-> <<"A", "B", "D">>,
     BUSINESS |-> <<"A", "C">>, RECREATION |-> <<"B">>, TRANSPORT |-> <<"A">>,
     AGRICULTURE |-> <<"D">>]

WideBlock1Configs ==
    {[site_area |-> 2000, land_use |-> RECREATION, population |-> ps[1], all_services |-> ps[2]] :
        ps \in {<<100, <<Service("A", 5), Service("A", 7), Service("B", 5)>> >>,
                <<100, <<>> >>}}

WideBlock2Configs ==
    {[site_area |-> 2000, land_use |-> RECREATION, population |-> ps[1], all_services |-> ps[2]] :
        ps \in {<<200, <<>> >>,
                <<200, <<Service("A", 300), Service("B", 200)>> >>,
                <<200, <<Service("B", 200)>> >>}}

WideCityModels ==
    {[blocks |-> [b \in BlockIds |-> IF b = 1 THEN c1 ELSE c2],
      land_use_service_types |-> WideLandUseServiceMap] :
        c1 \in WideBlock1Configs, c2 \in WideBlock2Configs}

WideScenarios ==
    {EmptyDict,
     [n \in {"D"} |-> Rat(1, 2)],
     [n \in {"D"} |-> Zero],
     [n \in {"A", "B"} |-> IF n = "A" THEN One ELSE Rat(1, 2)],
     [n \in {"B", "D"} |-> One]}

WideBlocksLanduseDicts ==
    {<<[key |-> 1, land_use |-> RESIDENTIAL]>>,
     <<[key |-> 1, land_use |-> INDUSTRIAL]>>,
     <<[key |-> 1, land_use |-> BUSINESS]>>,
     <<[key |-> 1, land_use |-> AGRICULTURE]>>,
     <<[key |-> 2, land_use |-> TRANSPORT], [key |-> 1, land_use |-> RESIDENTIAL]>>}

WideMaxFacilitiesValues == {NoBound, 3, 5}

InitWide ==
    /\ city_model \in WideCityModels
    /\ accessibility = AccessibilityTable([to |-> 3, from |-> 3], TRUE)
    /\ InitObject

NextWide ==
    \/ \E d \in WideBlocksLanduseDicts, s \in WideScenarios, m \in WideMaxFacilitiesValues :
          pc = "idle" /\ Calculate(d, s, m)
    \/ EstimateBlock
    \/ GenerateLp
    \/ Solve
    \/ Decode
    \/ BuildResult
    \/ \E b \in BlockIds, f \in BOOLEAN : GetDeletingUpdateDf(b, f)
    \/ \E b \in KeySet(BLOCKS_LANUSE_DICT) : GetProvisionDiff(b)

\* A new optimizer object over the wider catalog and its first invocation.
SpecWide == InitWide /\ [][NextWide]_vars

(***************************************************************************)
(* Properties.                                                             *)
(***************************************************************************)
Decoded == pc \in {"deleting", "done"}

Solved == pc \in {"decode", "deleting", "done"}

Generated == pc \in {"solve", "decode", "deleting", "done"}

RECURSIVE SumSeq(_)
SumSeq(s) == IF s = <<>> THEN 0 ELSE s[1] + SumSeq(Tail(s))

\* Total built area of a block in the decoded breakdown: sum of count x brick area.
BuiltArea(key) ==
    LET rows == decoded.bricks_to_build_df[key]
    IN  SumSeq([i \in DOMAIN rows |-> rows[i].service_counts * rows[i].area])

\* C1: after an optimal solve the decoded allocation of every converting block has
\* total built area <= site area, FSI_min <= built area / site area <= FSI_max for
\* the candidate land use, and every brick count an integer in 0..max_facilities
\* (no upper limit when max_facilities is None).
C1_SolvedAllocationWithinBounds ==
    (Decoded /\ solution.status = "Optimal") =>
        \A key \in KeySet(BLOCKS_LANUSE_DICT) :
            LET site_area  == city_model.blocks[key].site_area
                indicators == LAND_USE_INDICATORS[LandUseOf(BLOCKS_LANUSE_DICT, key)]
                rows       == decoded.bricks_to_build_df[key]
            IN  /\ BuiltArea(key) <= site_area
                /\ indicators.FSI_min * site_area <= 100 * BuiltArea(key)
                /\ 100 * BuiltArea(key) <= indicators.FSI_max * site_area
                /\ \A i \in DOMAIN rows :
                      /\ rows[i].service_counts \in Nat
                      /\ MAX_FACILITIES # NoBound => rows[i].service_counts <= MAX_FACILITIES
                /\ \A n \in DOMAIN solution.values[key].counts :
                      /\ solution.values[key].counts[n] \in Nat
                      /\ MAX_FACILITIES # NoBound =>
                            solution.values[key].counts[n] <= MAX_FACILITIES

\* An optimal solve of two blocks, decoded, with bricks built on both under a facility cap.
C1_Witness ==
    /\ pc = "done"
    /\ solution.status = "Optimal"
    /\ Len(BLOCKS_LANUSE_DICT) = 2
    /\ MAX_FACILITIES # NoBound
    /\ \A key \in KeySet(BLOCKS_LANUSE_DICT) : BuiltArea(key) > 0

\* C2: when the solver status is not optimal, the decoder is never run and no
\* result bundle is returned (calculate() fails explicitly instead).
C2_NonOptimalNeverDecoded == Decoded => solution.status = "Optimal"

\* A block whose catalog cannot reach FSI_min within the facility cap:
\* max_facilities x the brick areas is below FSI_min x site area.
FsiMinOutOfReach(key) ==
    /\ MAX_FACILITIES # NoBound
    /\ 100 * MAX_FACILITIES * SumSeq([n \in DOMAIN BRICKS[key] |-> BRICKS[key][n].area])
          < LAND_USE_INDICATORS[LandUseOf(BLOCKS_LANUSE_DICT, key)].FSI_min
            * city_model.blocks[key].site_area

\* C3: when some converting block cannot reach FSI_min within the facility cap, the
\* program is infeasible and calculate() reports InfeasibleProgram: it decodes
\* nothing and returns no result bundle.
C3_OutOfReachReportsInfeasible ==
    (Solved /\ \E key \in KeySet(BLOCKS_LANUSE_DICT) : FsiMinOutOfReach(key)) =>
        /\ solution.status = "Infeasible"
        /\ ~Decoded

\* The scenario of the worked example: one block of site area 10,000 converted to
\* a land use with FSI bounds [0.5, 3.0], one brick option (capacity 50, area 500),
\* facility cap 15, no candidate category in deficit.
C4_Case ==
    /\ Keys(BLOCKS_LANUSE_DICT) = <<1>>
    /\ LAND_USE_INDICATORS[LandUseOf(BLOCKS_LANUSE_DICT, 1)].FSI_min = 50
    /\ LAND_USE_INDICATORS[LandUseOf(BLOCKS_LANUSE_DICT, 1)].FSI_max = 300
    /\ city_model.blocks[1].site_area = 10000
    /\ get_bricks_df(NEW_SERVICE_TYPES[1]) = <<[service_type |-> "A", capacity |-> 50, area |-> 500]>>
    /\ MAX_FACILITIES = 15
    /\ \A i \in DOMAIN NEW_SERVICE_TYPES[1] :
          LET c == CONSTANTS_DICT[1].constants[NEW_SERVICE_TYPES[1][i]]
          IN  ~(c.demand_local > 0 /\ c.capacity_local < c.demand_local)

\* C4 as stated: in the worked example the solve is optimal and every optimal
\* allocation the solver may return builds exactly 10 bricks.
C4_ExactlyTenBricks ==
    (Solved /\ C4_Case) =>
        /\ solution.status = "Optimal"
        /\ solution.values[1].counts[1] = 10

\* C4 amended: in the worked example the solve is optimal and builds between 10 and
\* 15 bricks; with no category in deficit the objective is constant, so every count
\* from 10 to 15 is an optimum the solver may return.
C4_TenToFifteenBricks ==
    (Solved /\ C4_Case) =>
        /\ solution.status = "Optimal"
        /\ solution.values[1].counts[1] \in 10..15
        /\ {x[1].counts[1] : x \in Optima(prob)} = 10..15
        /\ prob.objective = <<>>

\* The worked example solved and decoded with 15 bricks built.
C4_Witness ==
    /\ pc = "done"
    /\ C4_Case
    /\ solution.status = "Optimal"
    /\ decoded.bricks_to_build_df[1][1].service_counts = 15

\* C5: get_deleting_update_df returns one row for the block holding, for each
\* installed service category, the negated capacity, and population = -(current
\* population) if and only if delete_population is true (no population key otherwise).
C5_DeletingRow ==
    deleting_call.called =>
        LET b        == deleting_call.selected_block_id
            block    == city_model.blocks[b]
            services == block.all_services
            types    == {services[i].service_type : i \in DOMAIN services}
            df       == deleting_call.update_df
            row      == df.rows[b]
        IN  /\ DOMAIN df.rows = {b}
            /\ DOMAIN row = types \cup (IF deleting_call.delete_population THEN {POPULATION} ELSE {})
            /\ \A c \in types :
                  \E i \in DOMAIN services :
                      services[i].service_type = c /\ row[c] = -services[i].capacity
            /\ deleting_call.delete_population => row[POPULATION] = -block.population
            /\ (services = <<Service("A", 10), Service("B", 5)>> /\ block.population = 100) =>
                  row = IF deleting_call.delete_population
                        THEN [A |-> -10, B |-> -5, population |-> -100]
                        ELSE [A |-> -10, B |-> -5]

\* The example block (A: 10, B: 5, population 100) demolished without its population.
C5_Witness ==
    /\ deleting_call.called
    /\ ~deleting_call.delete_population
    /\ city_model.blocks[deleting_call.selected_block_id].population = 100
    /\ deleting_call.update_df.rows[deleting_call.selected_block_id] = [A |-> -10, B |-> -5]

\* The selected block of the last get_provision_diff call has no installed service.
C6_Case ==
    /\ provision_call.called
    /\ city_model.blocks[provision_call.SELECTED_BLOCK].all_services = <<>>

\* C6 as stated: for a block with zero installed services the demolition row is
\* all-zero, and merging it with the allocation update reproduces that update unchanged.
C6_MergeReproducesAllocation ==
    C6_Case =>
        LET sel == provision_call.SELECTED_BLOCK
            del == provision_call.deleting_update_df.rows[sel]
        IN  /\ \A c \in DOMAIN del : del[c] = 0
            /\ provision_call.update_df = provision_call.optimal_update_df

\* C6 amended: for a block with zero installed services the demolition row has no
\* capacity entry, only population = -(current population); the merge keeps every
\* cell of the allocation update and adds that population entry to the block's row
\* exactly where the allocation update has none.
C6_MergeKeepsAllocationAddsPopulation ==
    C6_Case =>
        LET sel    == provision_call.SELECTED_BLOCK
            alloc  == provision_call.optimal_update_df
            del    == provision_call.deleting_update_df
            merged == provision_call.update_df
            pop    == city_model.blocks[sel].population
        IN  /\ del.rows = [k \in {sel} |-> [c \in {POPULATION} |-> -pop]]
            /\ DOMAIN merged.rows = DOMAIN alloc.rows
            /\ \A k \in DOMAIN alloc.rows :
                  /\ \A c \in DOMAIN alloc.rows[k] : merged.rows[k][c] = alloc.rows[k][c]
                  /\ DOMAIN merged.rows[k] =
                        DOMAIN alloc.rows[k] \cup (IF k = sel THEN {POPULATION} ELSE {})
            /\ POPULATION \notin DOMAIN alloc.rows[sel] => merged.rows[sel][POPULATION] = -pop

\* A populated block without services, merged with an allocation that adds capacity
\* and no population.
C6_Witness ==
    /\ C6_Case
    /\ solution.status = "Optimal"
    /\ city_model.blocks[provision_call.SELECTED_BLOCK].population = 100
    /\ provision_call.optimal_update_df.rows[provision_call.SELECTED_BLOCK] # EmptyDict
    /\ POPULATION \notin DOMAIN provision_call.optimal_update_df.rows[provision_call.SELECTED_BLOCK]
    /\ provision_call.update_df.rows[provision_call.SELECTED_BLOCK][POPULATION] = -100

RECURSIVE RSumSet(_, _)
\* Sum of the fractions f[x] over the finite set S.
RSumSet(f, S) ==
    IF S = {} THEN Zero
    ELSE LET x == CHOOSE y \in S : TRUE IN RAdd(f[x], RSumSet(f, S \ {x}))

\* C7: the weight the constraint builder uses for a category listed in the scenario
\* is its scenario weight; for any other category it is the default weight
\* (1 - sum of the scenario weights of the block's candidate categories)
\* / count(candidate categories), which is 1 / count with an empty scenario.
C7_DefaultWeight ==
    Generated =>
        \A i \in DOMAIN prob.objective :
            LET t      == prob.objective[i]
                servs  == NEW_SERVICE_TYPES[t.block]
                listed == DOMAIN SCENARIO \cap Range(servs)
            IN  IF t.serv \in DOMAIN SCENARIO
                THEN t.weight = SCENARIO[t.serv]
                ELSE /\ RMulInt(t.weight, Len(servs)) = RAdd(One, RMulInt(RSumSet(SCENARIO, listed), -1))
                     /\ SCENARIO = EmptyDict => t.weight = Rat(1, Len(servs))

\* A program with an objective term of a category the scenario does not list, for a
\* block one of whose other candidate categories the scenario weights.
C7_Witness ==
    /\ pc = "solve"
    /\ \E i \in DOMAIN prob.objective :
          /\ prob.objective[i].serv \notin DOMAIN SCENARIO
          /\ DOMAIN SCENARIO \cap Range(NEW_SERVICE_TYPES[prob.objective[i].block]) # {}
          /\ prob.objective[i].weight = Rat(1, 4)

\* C8: for every block the weights used over its candidate categories (the scenario
\* weight for a listed category, the default weight for an unlisted one) sum to 1.
C8_UsedWeightsSumToOne ==
    Generated =>
        \A key \in KeySet(BLOCKS_LANUSE_DICT) :
            LET servs == NEW_SERVICE_TYPES[key]
            IN  RSumSeq([i \in DOMAIN servs |-> ServiceWeight(SCENARIO, servs, servs[i])]) = One

\* global_capacity_left of a category for the selected block.
GlobalCapacityLeft(key, serv) ==
    ServiceFigures(key, serv).capacity_global - ServiceFigures(key, serv).demand_global

\* C9: the bottleneck is the first-seen category attaining the minimum of
\* global capacity - global demand over the union of original and candidate
\* categories, the same inputs always giving the same category and so the same
\* ceiling, and the ceiling returned is max(its margin / its per-1000 demand rate
\* x 1000, 0).
C9_BottleneckDeterministic ==
    \A key \in DOMAIN CONSTANTS_DICT :
        LET servs  == EstimatedServices(NEW_SERVICE_TYPES[key], ORIG_SERVICE_TYPES[key])
            seen   == Dedup(NEW_SERVICE_TYPES[key] \o ORIG_SERVICE_TYPES[key])
            least  == MinOf({GlobalCapacityLeft(key, s) : s \in servs})
            first  == seen[MinOf({i \in DOMAIN seen : GlobalCapacityLeft(key, seen[i]) = least})]
            ceiling == Rat(least * 1000, SERVICE_TYPES[first].demand)
        IN  /\ DOMAIN CONSTANTS_DICT[key].constants = servs
            /\ \A o \in Perms(servs) :
                  get_capacity_demand(key, o).min_population = CONSTANTS_DICT[key].min_population
            /\ CONSTANTS_DICT[key].min_population = IF least <= 0 THEN Zero ELSE ceiling

\* Population ceilings a run could have computed instead.
OtherCeilings == {Zero, Rat(1, 2), Rat(5, 1), Rat(10, 1)}

\* C10: the population ceiling has no influence on the program: with any other
\* ceiling for a block the builder produces the same variables, bounds, constraints
\* and objective; the population variable has no upper bound of its own, and the only
\* constraints on it are the residential-surplus constraints
\* added_demand <= local capacity - local demand.
C10_CeilingHasNoInfluence ==
    pc = "solve" =>
        \A key \in KeySet(BLOCKS_LANUSE_DICT) :
            /\ \A c \in OtherCeilings :
                  generate_lp_problem(Put(CONSTANTS_DICT, key,
                        [constants |-> CONSTANTS_DICT[key].constants, min_population |-> c])) = prob
            /\ prob.population[key].upBound = NoBound
            /\ \A con \in ConstraintsOf(prob, key) :
                  con.popcoef # 0 =>
                      LET k == CONSTANTS_DICT[key].constants[con.serv]
                      IN  /\ con.kind = "surplus"
                          /\ LandUseOf(BLOCKS_LANUSE_DICT, key) = RESIDENTIAL
                          /\ con.sense = "<="
                          /\ con.popcoef = SERVICE_TYPES[con.serv].demand
                          /\ con.rhs = 1000 * (k.capacity_local - k.demand_local)
                          /\ k.capacity_local > k.demand_local
                          /\ \A n \in DOMAIN con.coef : con.coef[n] = 0

\* A program built for a block whose ceiling is 0 and whose population variable is
\* nevertheless free to grow up to a positive residential-surplus bound.
C10_Witness ==
    /\ pc = "solve"
    /\ \E key \in KeySet(BLOCKS_LANUSE_DICT) :
          /\ CONSTANTS_DICT[key].min_population = Zero
          /\ PopulationInProblem(prob, key)
          /\ ImpliedPopulationBound(prob, key) > 0
          /\ \E x \in Optima(prob) : x[key].population > 0

\* A scenario with a weight outside [0, 1] or naming a category the city model does
\* not know.
InvalidScenario(scenario) ==
    \E n \in DOMAIN scenario :
        \/ n \notin ServiceNames
        \/ RLess(scenario[n], Zero)
        \/ RLess(One, scenario[n])

\* C11: an invocation of calculate() whose scenario has a weight outside [0, 1] or
\* names an unknown category fails with InvalidScenario before any LP variable,
\* constraint or objective term is created: it never gets as far as a built program,
\* and the exception it ends with is InvalidScenario.
C11_InvalidScenarioRejected ==
    (pc # "idle" /\ InvalidScenario(frame.scenario)) =>
        /\ ~Generated
        /\ pc = "raised" => raised = "InvalidScenario"

\* The running invocation is between its call and its return.
InFlight == pc \in {"estimate", "generate", "solve", "decode", "deleting"}

\* C12: two invocations of calculate() whose steps interleave on one optimizer
\* never observe or overwrite each other's land-use assignment, scenario or facility
\* cap, and each returns what it returns when run alone: while an invocation is in
\* flight the object's fields hold its own arguments, it raises nothing it does not
\* raise alone (alone, a call on catalogs with bricks raises nothing but the
\* decoder's ValueError on a program with a constant objective), and the allocation
\* and demolition tables it returns have the rows of its own blocks.
C12_InvocationsIsolated ==
    /\ InFlight =>
          /\ BLOCKS_LANUSE_DICT = frame.blocks_landuse_dict
          /\ SCENARIO = frame.scenario
          /\ MAX_FACILITIES = frame.max_facilities
    /\ (pc = "raised" /\ \A i \in DOMAIN frame.blocks_landuse_dict :
                             frame.blocks_landuse_dict[i].land_use # SPECIAL)
          => raised = "ValueError"
    /\ pc = "done" =>
          /\ DOMAIN result.optimal_update_df.rows = KeySet(frame.blocks_landuse_dict)
          /\ Cardinality(DOMAIN result.deleting_df.rows) = Len(frame.blocks_landuse_dict)

\* The catalog rows without the columns the decoder adds.
CatalogRows(bricks_df) ==
    [n \in DOMAIN bricks_df |->
        [service_type |-> bricks_df[n].service_type,
         capacity     |-> bricks_df[n].capacity,
         area         |-> bricks_df[n].area]]

\* C13: in any sequence of invocations of calculate() on one optimizer, the fields
\* an invocation works with hold its own arguments, the service-type maps, free
\* areas, constants and catalogs hold entries exactly for the blocks of its
\* blocks_landuse_dict it has estimated so far (all of them once the program is
\* built), every entry is the one computed from the city model for this invocation,
\* and the program solved is the one built from these fields: nothing of an earlier
\* invocation takes part in the result.
C13_SequentialInvocationsIndependent ==
    pc # "idle" =>
        LET estimated == KeySet(frame.blocks_landuse_dict) \ Range(frame.todo)
        IN  /\ BLOCKS_LANUSE_DICT = frame.blocks_landuse_dict
            /\ SCENARIO = frame.scenario
            /\ MAX_FACILITIES = frame.max_facilities
            /\ DOMAIN ORIG_SERVICE_TYPES = estimated
            /\ DOMAIN NEW_SERVICE_TYPES = estimated
            /\ DOMAIN FREE_AREA = estimated
            /\ DOMAIN CONSTANTS_DICT = estimated
            /\ DOMAIN BRICKS = estimated
            /\ pc \notin {"estimate"} => estimated = KeySet(frame.blocks_landuse_dict)
            /\ \A key \in estimated :
                  LET orig == city_model.land_use_service_types[city_model.blocks[key].land_use]
                      new  == city_model.land_use_service_types[
                                  LandUseOf(frame.blocks_landuse_dict, key)]
                  IN  /\ ORIG_SERVICE_TYPES[key] = orig
                      /\ NEW_SERVICE_TYPES[key] = new
                      /\ FREE_AREA[key] = calculate_free_area(key)
                      /\ CONSTANTS_DICT[key] \in
                            {get_capacity_demand(key, o) : o \in Perms(Range(new) \cup Range(orig))}
                      /\ CatalogRows(BRICKS[key]) = get_bricks_df(new)
            /\ Generated => prob = generate_lp_problem(CONSTANTS_DICT)

\* An invocation for block 1 alone has returned an optimal allocation after an
\* invocation that covered blocks 2 and 1.
C13_Witness ==
    /\ pc = "done"
    /\ previous = <<2, 1>>
    /\ Keys(frame.blocks_landuse_dict) = <<1>>
    /\ solution.status = "Optimal"
    /\ DOMAIN result.optimal_update_df.rows = {1}

C15_DemolitionTableByBlock ==
    pc = "done" =>
        LET df == result.deleting_df
        IN  /\ DOMAIN df.rows = KeySet(BLOCKS_LANUSE_DICT)
            /\ \A key \in KeySet(BLOCKS_LANUSE_DICT) :
                  /\ DOMAIN df.rows[key] = df.columns
                  /\ df.rows[key][POPULATION] = -city_model.blocks[key].population
                  /\ \A c \in df.columns \ {POPULATION} :
                        df.rows[key][c] = -CapacityColumn(key, c)

\* C16: for every block and every candidate category the objective contains the
\* term weight x (C - D), with C = built capacity + local capacity and D = local
\* demand + population_var x demand rate / 1000, the joint objective being the sum
\* of these terms over all blocks and candidate categories.
C16_ObjectiveTermEveryCategory ==
    Generated =>
        /\ \A key \in KeySet(BLOCKS_LANUSE_DICT) :
              \A i \in DOMAIN NEW_SERVICE_TYPES[key] :
                  LET serv == NEW_SERVICE_TYPES[key][i]
                      k    == CONSTANTS_DICT[key].constants[serv]
                  IN  \E j \in DOMAIN prob.objective :
                          /\ prob.objective[j].block = key
                          /\ prob.objective[j].serv = serv
                          /\ prob.objective[j].weight =
                                ServiceWeight(SCENARIO, NEW_SERVICE_TYPES[key], serv)
                          /\ prob.objective[j].coef = FitFunction(BRICKS[key], serv)
                          /\ prob.objective[j].const = k.capacity_local - k.demand_local
                          /\ prob.objective[j].popcoef = -SERVICE_TYPES[serv].demand
        /\ Len(prob.objective) =
              SumFun([key \in KeySet(BLOCKS_LANUSE_DICT) |-> Len(NEW_SERVICE_TYPES[key])],
                     KeySet(BLOCKS_LANUSE_DICT))

\* Built capacity of a category in a block's assignment: sum of count x brick capacity.
BuiltCapacity(bricks_df, serv, b) == LinearValue(FitFunction(bricks_df, serv), 0, b)

\* The candidate categories of a block in deficit: local demand > 0 and local
\* capacity < local demand.
DeficitCategories(key) ==
    {serv \in Range(NEW_SERVICE_TYPES[key]) :
        /\ CONSTANTS_DICT[key].constants[serv].demand_local > 0
        /\ CONSTANTS_DICT[key].constants[serv].capacity_local
              < CONSTANTS_DICT[key].constants[serv].demand_local}

\* The gap of a category: local demand - local capacity.
Gap(key, serv) ==
    CONSTANTS_DICT[key].constants[serv].demand_local
    - CONSTANTS_DICT[key].constants[serv].capacity_local

\* C17: for every block and candidate category with local demand > 0 and local
\* capacity < local demand, every feasible allocation of the program has built
\* capacity <= local demand - local capacity; so has the allocation an optimal
\* solve returns and the capacity the decoder reports for the category.
C17_DeficitCapsBuiltCapacity ==
    /\ pc = "solve" =>
          \A x \in Feasible(prob) :
              \A key \in KeySet(BLOCKS_LANUSE_DICT) :
                  \A serv \in DeficitCategories(key) :
                      BuiltCapacity(BRICKS[key], serv, x[key]) <= Gap(key, serv)
    /\ (Solved /\ solution.status = "Optimal") =>
          \A key \in KeySet(BLOCKS_LANUSE_DICT) :
              \A serv \in DeficitCategories(key) :
                  BuiltCapacity(BRICKS[key], serv, solution.values[key]) <= Gap(key, serv)
    /\ (Decoded /\ solution.status = "Optimal") =>
          \A key \in KeySet(BLOCKS_LANUSE_DICT) :
              \A serv \in DeficitCategories(key) :
                  serv \in DOMAIN decoded.update_df.rows[key] =>
                      decoded.update_df.rows[key][serv] <= Gap(key, serv)

\* An optimal allocation that builds in a deficit category as much as the gap lets
\* it, where the block's area and FSI_max would take one more brick of the category.
C17_Witness ==
    /\ pc = "done"
    /\ solution.status = "Optimal"
    /\ \E key \in KeySet(BLOCKS_LANUSE_DICT) :
          \E n \in DOMAIN BRICKS[key] :
              LET serv == BRICKS[key][n].service_type
                  more == BuiltArea(key) + BRICKS[key][n].area
              IN  /\ serv \in DeficitCategories(key)
                  /\ solution.values[key].counts[n] > 0
                  /\ BuiltCapacity(BRICKS[key], serv, solution.values[key])
                        + BRICKS[key][n].capacity > Gap(key, serv)
                  /\ more <= city_model.blocks[key].site_area
                  /\ 100 * more <= LAND_USE_INDICATORS[LandUseOf(BLOCKS_LANUSE_DICT, key)].FSI_max
                                    * city_model.blocks[key].site_area
                  /\ (MAX_FACILITIES = NoBound
                      \/ solution.values[key].counts[n] < MAX_FACILITIES)

\* The constraints of the program on a block's population variable that a category adds.
PopulationConstraints(key, serv) ==
    {c \in ConstraintsOf(prob, key) : c.popcoef # 0 /\ c.serv = serv}

\* C18: the constraint population_var x demand rate / 1000 <= local capacity -
\* local demand is added for a block and a candidate category if and only if local
\* capacity > local demand and the block's candidate land use is residential; for a
\* non-residential candidate land use no constraint bounds the added population.
C18_SurplusConstraintIff ==
    Generated =>
        \A key \in KeySet(BLOCKS_LANUSE_DICT) :
            /\ \A serv \in Range(NEW_SERVICE_TYPES[key]) :
                  LET k == CONSTANTS_DICT[key].constants[serv]
                  IN  /\ PopulationConstraints(key, serv) # {}
                          <=> (k.capacity_local > k.demand_local
                               /\ LandUseOf(BLOCKS_LANUSE_DICT, key) = RESIDENTIAL)
                      /\ \A c \in PopulationConstraints(key, serv) :
                            /\ c.sense = "<="
                            /\ c.popcoef = SERVICE_TYPES[serv].demand
                            /\ c.rhs = 1000 * (k.capacity_local - k.demand_local)
                            /\ \A n \in DOMAIN c.coef : c.coef[n] = 0
            /\ LandUseOf(BLOCKS_LANUSE_DICT, key) # RESIDENTIAL =>
                  /\ \A c \in ConstraintsOf(prob, key) : c.popcoef = 0
                  /\ ImpliedPopulationBound(prob, key) = NoBound

\* A program for a residential block with one candidate category in surplus, which
\* bounds the population, and one in deficit, which does not.
C18_Witness ==
    /\ pc = "solve"
    /\ \E key \in KeySet(BLOCKS_LANUSE_DICT) :
          /\ LandUseOf(BLOCKS_LANUSE_DICT, key) = RESIDENTIAL
          /\ \E serv \in Range(NEW_SERVICE_TYPES[key]) : PopulationConstraints(key, serv) # {}
          /\ \E serv \in DeficitCategories(key) : PopulationConstraints(key, serv) = {}

\* generate_lp_problem has run for the running invocation.
BuilderRan == Generated \/ (pc = "raised" /\ raised \in {"AttributeError", "ZeroDivisionError"})

\* The FSI constraints of the program for a block, taken from its candidate land use.
FsiConstraintsActive(key) ==
    LET indicators == LAND_USE_INDICATORS[LandUseOf(BLOCKS_LANUSE_DICT, key)]
        block_area == city_model.blocks[key].site_area
        areas      == [n \in DOMAIN BRICKS[key] |-> 100 * BRICKS[key][n].area]
    IN  /\ \E c \in ConstraintsOf(prob, key) :
              c.coef = areas /\ c.popcoef = 0 /\ c.sense = ">="
              /\ c.rhs = indicators.FSI_min * block_area
        /\ \E c \in ConstraintsOf(prob, key) :
              c.coef = areas /\ c.popcoef = 0 /\ c.sense = "<="
              /\ c.rhs = indicators.FSI_max * block_area

\* C19: both FSI bounds are constraints of the program for every converting block,
\* a block with zero brick rows included, and if a block has no combination of brick
\* counts reaching FSI_min (no brick row at all, or too few bricks under the facility
\* cap) the joint program is infeasible whatever the other blocks allow.
C19_FsiBoundsAlwaysActive ==
    BuilderRan =>
        /\ pc # "raised"
        /\ \A key \in KeySet(BLOCKS_LANUSE_DICT) : FsiConstraintsActive(key)
        /\ (Solved /\ \E key \in KeySet(BLOCKS_LANUSE_DICT) :
                          BRICKS[key] = <<>> \/ FsiMinOutOfReach(key))
              => solution.status = "Infeasible"

\* C20: for a selected block and a category, a block belongs to the catchment if
\* and only if its accessibility_to cost or its accessibility_from cost is <= the
\* category's threshold, and a block above the threshold in both directions never
\* does: the local demand and local capacity the estimator stores are the sums over
\* exactly the blocks within the threshold in one direction or the other (the
\* selected block's population taken as 0, its own capacity subtracted).
C20_CatchmentEitherDirection ==
    \A key \in DOMAIN CONSTANTS_DICT :
        \A serv \in DOMAIN CONSTANTS_DICT[key].constants :
            LET threshold == SERVICE_TYPES[serv].accessibility
                within    == {b \in DOMAIN accessibility[key] :
                                \/ accessibility[key][b].to <= threshold
                                \/ accessibility[key][b].from <= threshold}
                beyond    == {b \in DOMAIN accessibility[key] :
                                /\ accessibility[key][b].to > threshold
                                /\ accessibility[key][b].from > threshold}
                need      == [b \in BlockIds |->
                                IF b = key THEN 0
                                ELSE calculate_in_need(serv, city_model.blocks[b].population)]
                cap       == [b \in BlockIds |-> CapacityColumn(b, serv)]
            IN  /\ Catchment(key, serv) = within
                /\ Catchment(key, serv) \cap beyond = {}
                /\ CONSTANTS_DICT[key].constants[serv].demand_local = SumFun(need, within)
                /\ CONSTANTS_DICT[key].constants[serv].capacity_local
                      = SumFun(cap, within) - cap[key]

\* Block 1 estimated with block 2 (200 inhabitants) at cost 8 to and 20 from: within
\* the threshold 10 of category A in one direction only, and counted in A's local
\* demand; beyond the threshold 5 of category B in both, and left out of B's.
C20_Witness ==
    /\ 1 \in DOMAIN CONSTANTS_DICT
    /\ accessibility[1][2] = [to |-> 8, from |-> 20]
    /\ city_model.blocks[2].population = 200
    /\ DOMAIN CONSTANTS_DICT[1].constants = {"A", "B"}
    /\ CONSTANTS_DICT[1].constants["A"].demand_local = 200
    /\ CONSTANTS_DICT[1].constants["B"].demand_local = 0

\* C21: for every selected block and category the local demand is the sum of the
\* category's demand function over the populations of the catchment blocks, the
\* selected block's population counted as 0, and the local capacity is the category
\* capacity of the catchment blocks other than the selected block, whether or not
\* the selected block is a member of the catchment; the local capacity is never
\* negative (capacities are non-negative).
C21_LocalFiguresExcludeSelectedBlock ==
    \A key \in DOMAIN CONSTANTS_DICT :
        \A serv \in DOMAIN CONSTANTS_DICT[key].constants :
            LET catchment == Catchment(key, serv)
                need      == [b \in BlockIds |->
                                IF b = key THEN 0
                                ELSE calculate_in_need(serv, city_model.blocks[b].population)]
                cap       == [b \in BlockIds |-> CapacityColumn(b, serv)]
                k         == CONSTANTS_DICT[key].constants[serv]
            IN  /\ k.demand_local = SumFun(need, catchment)
                /\ k.capacity_local = SumFun(cap, catchment \ {key})
                /\ k.capacity_local >= 0

\* C22: the decoder's update row of each block holds, for every category with at
\* least one non-zero solved brick count, the sum of count x brick capacity over
\* that category's bricks of the block; a category whose counts are all zero gets
\* no built capacity; the itemized breakdown holds exactly the bricks with a
\* non-zero count; and the row has a population entry, equal to the solved
\* population variable, only when that value is positive.
C22_UpdateRowFromSolvedCounts ==
    Decoded =>
        \A key \in KeySet(BLOCKS_LANUSE_DICT) :
            LET counts     == solution.values[key].counts
                population == solution.values[key].population
                catalog    == BRICKS[key]
                built      == {catalog[n].service_type : n \in {m \in DOMAIN catalog : counts[m] # 0}}
                row        == decoded.update_df.rows[key]
                breakdown  == decoded.bricks_to_build_df[key]
            IN  /\ DOMAIN row \ {POPULATION} = built
                /\ \A serv \in built :
                      row[serv] = SumFun([n \in DOMAIN catalog |->
                                            IF catalog[n].service_type = serv
                                            THEN counts[n] * catalog[n].capacity ELSE 0],
                                        DOMAIN catalog)
                /\ {breakdown[i].idx : i \in DOMAIN breakdown} = {n \in DOMAIN catalog : counts[n] # 0}
                /\ \A i \in DOMAIN breakdown :
                      /\ breakdown[i].service_counts = counts[breakdown[i].idx]
                      /\ breakdown[i].service_counts # 0
                /\ POPULATION \in DOMAIN row <=> population > 0
                /\ population > 0 => row[POPULATION] = population

\* An optimal solve decoded for a block where both bricks of category D are built
\* (30 + 20 = 50), no brick of category B is, and the population variable is 2.
C22_Witness ==
    /\ pc = "done"
    /\ solution.status = "Optimal"
    /\ {"D", POPULATION} \subseteq DOMAIN decoded.update_df.rows[1]
    /\ decoded.update_df.rows[1]["D"] = 50
    /\ Len(SelectSeq(decoded.bricks_to_build_df[1], LAMBDA r : r.service_type = "D")) = 2
    /\ "B" \notin DOMAIN decoded.update_df.rows[1]
    /\ "B" \in Range(NEW_SERVICE_TYPES[1])
    /\ decoded.update_df.rows[1][POPULATION] = 2

\* The program calculate() builds for one block of the assignment converted alone,
\* from the city model: its own estimate, catalog, variables, constraints and terms.
SeparateProgram(key) ==
    LET land_use == LandUseOf(BLOCKS_LANUSE_DICT, key)
        new      == get_land_use_service_types(land_use)
        orig     == get_land_use_service_types(city_model.blocks[key].land_use)
        order    == CHOOSE o \in Perms(EstimatedServices(new, orig)) : TRUE
        section  == BlockSection(key, land_use, SCENARIO, MAX_FACILITIES, new,
                                 get_bricks_df(new), get_capacity_demand(key, order))
    IN  [sense          |-> "LpMaximize",
         keys           |-> <<key>>,
         service_counts |-> [k \in {key} |-> section.service_counts],
         population     |-> [k \in {key} |-> section.population],
         constraints    |-> section.constraints,
         objective      |-> section.objective]

\* The joint assignments within the variables' ranges that satisfy every constraint
\* of the program, each constraint evaluated on the variables it mentions.
DirectFeasible(p) ==
    {x \in Joint(p, [k \in Range(p.keys) |-> BlockAssignments(p, k)]) :
        \A i \in DOMAIN p.constraints : Satisfies(p.constraints[i], x[p.constraints[i].block])}

\* The optimal objective value of a program with an optimal solve.
OptimalObjective(p) ==
    LET optima == Optima(p) IN ObjectiveValue(p, CHOOSE x \in optima : TRUE)

\* C23: the joint program has no cross-block coupling: every constraint and every
\* objective term mentions the variables and constants of one block only and is the
\* one of that block's program built alone; so the joint program is feasible iff
\* every per-block program is, and its optimal objective is the sum of the optimal
\* objectives of the per-block programs solved separately.
C23_NoCrossBlockCoupling ==
    pc = "solve" =>
        \A keys \in {KeySet(BLOCKS_LANUSE_DICT)} :
        \A separate \in {[key \in keys |-> SeparateProgram(key)]} :
        \A alone \in {[key \in keys |-> Feasible(separate[key])]} :
        \A direct \in {DirectFeasible(prob)} :
        \A joint \in {Feasible(prob)} :
        \A scale \in {WeightDen(prob)} :
        \A best \in {[key \in keys |->
                          IF StatusOf(separate[key], alone[key]) = "Optimal"
                          THEN MaxOf({ScaledObjective(separate[key], scale, x) :
                                        x \in alone[key]})
                          ELSE 0]} :
        \A total \in {SumFun(best, keys)} :
            /\ \A i \in DOMAIN prob.constraints :
                  LET c == prob.constraints[i]
                  IN  /\ c.block \in keys
                      /\ DOMAIN c.coef = DOMAIN prob.service_counts[c.block]
                      /\ c \in Range(separate[c.block].constraints)
            /\ \A i \in DOMAIN prob.objective :
                  LET t == prob.objective[i]
                  IN  /\ t.block \in keys
                      /\ DOMAIN t.coef = DOMAIN prob.service_counts[t.block]
                      /\ t \in Range(separate[t.block].objective)
            /\ \A key \in keys :
                  /\ Range(separate[key].constraints) \subseteq Range(prob.constraints)
                  /\ Range(separate[key].objective) \subseteq Range(prob.objective)
                  /\ separate[key].service_counts[key] = prob.service_counts[key]
                  /\ separate[key].population[key] = prob.population[key]
            /\ direct = joint
            /\ direct # {} <=> \A key \in keys : alone[key] # {}
            /\ StatusOf(prob, joint) = "Optimal" =>
                  /\ \A key \in keys : StatusOf(separate[key], alone[key]) = "Optimal"
                  /\ MaxOf({ScaledObjective(prob, scale, x) : x \in direct}) = total
                  /\ \A x \in OptimaOf(prob, joint) : ScaledObjective(prob, scale, x) = total

\* A feasible joint program of two blocks whose per-block optima are both non-zero
\* and differ, the two blocks having different constants for a shared category.
C23_Witness ==
    /\ pc = "solve"
    /\ Len(prob.keys) = 2
    /\ LpStatus(prob) = "Optimal"
    /\ OptimalObjective(SeparateProgram(1)) # Zero
    /\ OptimalObjective(SeparateProgram(2)) # Zero
    /\ OptimalObjective(SeparateProgram(1)) # OptimalObjective(SeparateProgram(2))
    /\ \E n \in DOMAIN CONSTANTS_DICT[1].constants \cap DOMAIN CONSTANTS_DICT[2].constants :
          CONSTANTS_DICT[1].constants[n] # CONSTANTS_DICT[2].constants[n]

\* The candidate categories of a block that have no brick option.
BricklessCategories(key) ==
    {serv \in Range(NEW_SERVICE_TYPES[key]) : SERVICE_TYPES[serv].bricks = <<>>}

\* C24: when a candidate category of a block, or every candidate category of a
\* block, has zero brick options, calculate() does not fail because of the missing
\* catalog: the catalog adapter and the constraint builder complete, and the
\* block's section of the program has zero brick variables for that category.
C24_MissingCatalogNotFatal ==
    (BuilderRan /\ \E key \in KeySet(BLOCKS_LANUSE_DICT) : BricklessCategories(key) # {}) =>
        /\ pc # "raised"
        /\ \A key \in KeySet(BLOCKS_LANUSE_DICT) :
              /\ DOMAIN prob.service_counts[key] = DOMAIN BRICKS[key]
              /\ \A serv \in BricklessCategories(key) :
                    \A n \in DOMAIN prob.service_counts[key] :
                        BRICKS[key][n].service_type # serv

\* A cell of a row, 0 where the row has none.
CellOrZero(row, c) == IF c \in DOMAIN row THEN row[c] ELSE 0

\* C25: the update get_provision_diff applies to the selected block combines
\* demolition and addition: every demolition delta and every added capacity is
\* reflected, so that a category both demolished and rebuilt has the delta
\* (added capacity - demolished capacity) and the population delta is
\* (added population - current population).
C25_UpdateCombinesDemolitionAndAddition ==
    provision_call.called =>
        LET sel    == provision_call.SELECTED_BLOCK
            added  == provision_call.optimal_update_df.rows[sel]
            merged == provision_call.update_df.rows[sel]
        IN  /\ \A c \in ServiceNames :
                  CellOrZero(merged, c) = CellOrZero(added, c) - CapacityColumn(sel, c)
            /\ CellOrZero(merged, POPULATION)
                  = CellOrZero(added, POPULATION) - city_model.blocks[sel].population

\* C26: when a block has several installed service instances of one category, the
\* demolition row removes the full capacity of every instance: the category's delta
\* is minus the sum of the capacities of all installed instances of the category.
C26_DemolitionSumsInstances ==
    deleting_call.called =>
        LET b        == deleting_call.selected_block_id
            services == city_model.blocks[b].all_services
            row      == deleting_call.update_df.rows[b]
        IN  \A i \in DOMAIN services :
                /\ services[i].service_type \in DOMAIN row
                /\ row[services[i].service_type] = -CapacityColumn(b, services[i].service_type)

\* Every weight of the scenario lies in [0, 1].
WeightsInUnitInterval(scenario) ==
    \A n \in DOMAIN scenario : RLeq(Zero, scenario[n]) /\ RLeq(scenario[n], One)

\* C27: for every scenario whose weights all lie in [0, 1] the assembled program
\* is never unbounded: the solver status is optimal or infeasible, for residential
\* and non-residential candidate land uses alike.
C27_NeverUnbounded ==
    (Solved /\ WeightsInUnitInterval(SCENARIO)) =>
        /\ ~Unbounded(prob)
        /\ solution.status \in {"Optimal", "Infeasible"}

\* Every weight the objective uses is non-negative.
WeightsUsedNonNegative == \A i \in DOMAIN prob.objective : RLeq(Zero, prob.objective[i].weight)

\* C28: when all weights used are non-negative, every objective term
\* weight x (C - D) is <= 0 in every feasible allocation (a term exists only for a
\* deficit category, whose built capacity is capped by the gap and whose added
\* demand is >= 0), and the solved objective value returned as 'provision' is
\* never positive.
C28_ProvisionNeverPositive ==
    /\ (pc = "solve" /\ WeightsUsedNonNegative) =>
          /\ \A i \in DOMAIN prob.objective :
                prob.objective[i].serv \in DeficitCategories(prob.objective[i].block)
          /\ \A x \in Feasible(prob) :
                \A i \in DOMAIN prob.objective : RLeq(TermValue(prob.objective[i], x), Zero)
    /\ (Decoded /\ solution.status = "Optimal" /\ WeightsUsedNonNegative) =>
          RLeq(decoded.provision, Zero)
    /\ (pc = "done" /\ solution.status = "Optimal" /\ WeightsUsedNonNegative) =>
          RLeq(result.provision, Zero)

\* An optimal solve that builds capacity in a deficit category without closing the
\* gap: the provision returned is negative.
C28_Witness ==
    /\ pc = "done"
    /\ solution.status = "Optimal"
    /\ WeightsUsedNonNegative
    /\ \E i \in DOMAIN prob.objective :
          /\ RLess(Zero, prob.objective[i].weight)
          /\ BuiltCapacity(BRICKS[prob.objective[i].block], prob.objective[i].serv,
                           solution.values[prob.objective[i].block]) > 0
    /\ RLess(result.provision, Zero)

\* The block has a candidate category in deficit (an objective term) with a positive
\* weight and a positive demand rate.
HasWeightedDeficit(p, key) ==
    \E i \in DOMAIN p.objective :
        /\ p.objective[i].block = key
        /\ p.objective[i].serv \in DeficitCategories(key)
        /\ RLess(Zero, p.objective[i].weight)
        /\ SERVICE_TYPES[p.objective[i].serv].demand > 0

\* C29: in every optimal solution a block's added population is 0 whenever the
\* block has at least one candidate category in deficit with positive weight and
\* positive demand rate: the population variable then has a strictly negative
\* objective coefficient and lower bound 0.
C29_NoGrowthWithWeightedDeficit ==
    /\ pc = "solve" =>
          \A key \in Range(prob.keys) :
              HasWeightedDeficit(prob, key) =>
                  /\ RLess(PopulationObjectiveCoef(prob, key), Zero)
                  /\ prob.population[key].lowBound = 0
                  /\ \A F \in {Feasible(prob)} :
                        StatusOf(prob, F) = "Optimal" =>
                            \A x \in OptimaOf(prob, F) : x[key].population = 0
    /\ (Solved /\ solution.status = "Optimal") =>
          \A key \in Range(prob.keys) :
              HasWeightedDeficit(prob, key) => solution.values[key].population = 0

\* Total built area of a block under an assignment of its variables.
AssignedArea(key, b) == LinearValue([n \in DOMAIN BRICKS[key] |-> BRICKS[key][n].area], 0, b)

\* min(FSI_max, 1) in hundredths.
EffectiveFsiMax(land_use) ==
    IF LAND_USE_INDICATORS[land_use].FSI_max < 100
    THEN LAND_USE_INDICATORS[land_use].FSI_max ELSE 100

\* The brick counts within the facility cap whose areas sum exactly to the site area.
ExactFills(key) ==
    LET idx  == DOMAIN BRICKS[key]
        site == city_model.blocks[key].site_area
        top  == [n \in idx |-> IF MAX_FACILITIES # NoBound /\ MAX_FACILITIES < site \div BRICKS[key][n].area
                               THEN MAX_FACILITIES ELSE site \div BRICKS[key][n].area]
    IN  {f \in Product([i \in 1..Cardinality(idx) |-> i], [n \in idx |-> 0..top[n]]) :
            SumFun([n \in idx |-> BRICKS[key][n].area * f[n]], idx) = site}

\* C30: for a block whose candidate land use has FSI_min = 1.0 (BUSINESS) the FSI
\* lower bound and the bound 'total built area <= site area' coincide: every feasible
\* allocation has total built area exactly equal to the site area, and the program
\* is infeasible unless some combination of brick counts within the facility cap
\* sums exactly to the site area. For every land use the two upper bounds together
\* say: built area <= min(FSI_max, 1) x site area.
C30_FsiMinOneFillsSite ==
    /\ pc = "solve" =>
          \A key \in Range(prob.keys) :
              \A land_use \in {LandUseOf(BLOCKS_LANUSE_DICT, key)} :
                  /\ \A b \in BlockAssignments(prob, key) :
                        (\A c \in ConstraintsOf(prob, key) :
                             c.kind \in {"fsi_max", "area"} => Satisfies(c, b))
                        <=> 100 * AssignedArea(key, b)
                               <= EffectiveFsiMax(land_use) * city_model.blocks[key].site_area
                  /\ LAND_USE_INDICATORS[land_use].FSI_min = 100 =>
                        \A b \in BlockFeasible(prob, key) :
                            AssignedArea(key, b) = city_model.blocks[key].site_area
    /\ Solved =>
          \A key \in Range(prob.keys) :
              (/\ LAND_USE_INDICATORS[LandUseOf(BLOCKS_LANUSE_DICT, key)].FSI_min = 100
               /\ ExactFills(key) = {})
                  => solution.status = "Infeasible"
    /\ (Solved /\ solution.status = "Optimal") =>
          \A key \in Range(prob.keys) :
              /\ 100 * AssignedArea(key, solution.values[key])
                    <= EffectiveFsiMax(LandUseOf(BLOCKS_LANUSE_DICT, key))
                       * city_model.blocks[key].site_area
              /\ LAND_USE_INDICATORS[LandUseOf(BLOCKS_LANUSE_DICT, key)].FSI_min = 100 =>
                    AssignedArea(key, solution.values[key]) = city_model.blocks[key].site_area

\* An optimal solve for a block converted to BUSINESS: its bricks fill the site area
\* exactly.
C30_Witness ==
    /\ pc = "done"
    /\ solution.status = "Optimal"
    /\ \E key \in Range(prob.keys) :
          /\ LandUseOf(BLOCKS_LANUSE_DICT, key) = BUSINESS
          /\ AssignedArea(key, solution.values[key]) = city_model.blocks[key].site_area
          /\ ExactFills(key) # {}

\* A BUSINESS conversion that no combination of bricks within the facility cap can
\* fill exactly: the program is infeasible.
C30_WitnessInfeasible ==
    /\ Solved
    /\ solution.status = "Infeasible"
    /\ \E key \in Range(prob.keys) :
          /\ LandUseOf(BLOCKS_LANUSE_DICT, key) = BUSINESS
          /\ BRICKS[key] # <<>>
          /\ ExactFills(key) = {}

\* An optimal solve for a land use with FSI_max below 1: the built area is positive
\* and within FSI_max x site area.
C30_WitnessLowFsiMax ==
    /\ pc = "done"
    /\ solution.status = "Optimal"
    /\ \E key \in Range(prob.keys) :
          /\ LAND_USE_INDICATORS[LandUseOf(BLOCKS_LANUSE_DICT, key)].FSI_max < 100
          /\ AssignedArea(key, solution.values[key]) > 0

====
